---- MODULE Spec2Model ----
(***************************************************************************)
(* A model of the astro_cli engine: the functor call contract              *)
(* (normalize -> execute -> validate -> record), the five functor          *)
(* variants, and the execution of Sequential and Parallel nodes, the       *)
(* latter with one worker process and one derived context per child.       *)
(*                                                                         *)
(* A Python str is a sequence of atoms: a word of a command is spelled     *)
(* character by character (<<":", "s">> is ":s"), a fixed message text is  *)
(* one atom.  Concatenation is \o, so formatting (history entries, functor *)
(* names, joined error messages) is computed as the code computes it.      *)
(* A list of str is a sequence of such sequences.                          *)
(***************************************************************************)
EXTENDS Naturals, Sequences, FiniteSets, TLC

VARIABLES
    contexts,       \* process root -> Context (<<>> is the caller's context)
    script_files,   \* names w for which <scripts_path>/w.py is a file
    functor,        \* <<>> before parse, <<tree>> after
    calls,          \* node path -> the activation of that node's __call__
    finished,       \* the worker tasks that are done, in the order they ended
    parse_log,      \* <<>>, or what parse did and the handler names it saw
    source,         \* the command text given to the tokenizer
    tokens,         \* what _tokenize made of it
    run,            \* what the child process of the last leaf call did
    tmp_files       \* the scratch buffer files that exist

\* The variables only the tokenizer and the single leaf call write.
io_vars == <<source, tokens, run, tmp_files>>

vars == <<contexts, script_files, functor, calls, finished, parse_log,
          source, tokens, run, tmp_files>>

(***************************************************************************)
(* Bounds of the model.                                                    *)
(***************************************************************************)
MaxChildren == 2
MaxChars == 6
MaxTokens == 6
MaxParses == 2

(***************************************************************************)
(* Python values.                                                          *)
(***************************************************************************)
None == <<"<None>">>

NoneOpt == <<>>
Some(v) == <<v>>

Truthy(s) == s # None /\ s # <<>>

RECURSIVE Join(_, _)
Join(sep, parts) ==
    IF parts = <<>> THEN <<>>
    ELSE IF Len(parts) = 1 THEN parts[1]
    ELSE parts[1] \o sep \o Join(sep, Tail(parts))

RECURSIVE Flatten(_)
Flatten(lists) ==
    IF lists = <<>> THEN <<>> ELSE lists[1] \o Flatten(Tail(lists))

startswith(s, c) == Len(s) > 0 /\ s[1] = c

INPUT_FIELDS == {"input_files", "extra_args"}
OUTPUT_FIELDS == {"output_files", "is_success", "error_message"}

\* An input payload: the keys present and the value under each known key.
\* None and {} are both the payload with no keys (the code tests `if payload`).
InputPayload(keys, input_files, extra_args) ==
    [keys |-> keys, input_files |-> input_files, extra_args |-> extra_args]

NoPayload == InputPayload({}, <<>>, <<>>)

\* An output payload: the keys present and the value under each known key.
\* `mapping` is FALSE for a value that is no mapping at all (a JSON list, null).
OutputPayload(output_files, is_success, error_message) ==
    [mapping |-> TRUE, keys |-> OUTPUT_FIELDS, output_files |-> output_files,
     is_success |-> is_success, error_message |-> error_message]

NonMapping ==
    [mapping |-> FALSE, keys |-> {}, output_files |-> <<>>,
     is_success |-> FALSE, error_message |-> None]

\* payload.get("output_files"), payload.get("is_success"), ... of a mapping
GetOutputFiles(p) == IF "output_files" \in p.keys THEN p.output_files ELSE <<>>
GetIsSuccess(p) == "is_success" \in p.keys /\ p.is_success
GetErrorMessage(p) == IF "error_message" \in p.keys THEN p.error_message ELSE None
GetInputFiles(p) == IF "input_files" \in p.keys THEN p.input_files ELSE <<>>
GetExtraArgs(p) == IF "extra_args" \in p.keys THEN p.extra_args ELSE <<>>

\* The outcome of a Python call: a returned value or a raised exception.
Return(v) == [exc |-> "none", value |-> v, message |-> <<>>]
Raise(kind, message) ==
    [exc |-> kind, value |-> OutputPayload(<<>>, FALSE, None), message |-> message]

(***************************************************************************)
(* Context (context.py).                                                   *)
(***************************************************************************)
\* system_funcs is a dict: a function from handler names to handlers.
EmptyDict == <<>>

Context(path, system_funcs, scripts_path) ==
    [path |-> path, history |-> <<>>, system_funcs |-> system_funcs,
     scripts_path |-> scripts_path]

serialize_history(self, input_payload) ==
    LET joined_input == Join(<<" ">>, GetInputFiles(input_payload))
        joined_args == Join(<<" ">>, GetExtraArgs(input_payload))
        parts == <<self.name>>
                 \o (IF joined_input # <<>> THEN <<joined_input>> ELSE <<>>)
                 \o (IF joined_args # <<>> THEN <<joined_args>> ELSE <<>>)
    IN Join(<<" ">>, parts)

record_history(context, self, input_payload) ==
    [context EXCEPT !.history = Append(@, serialize_history(self, input_payload))]

(***************************************************************************)
(* Functor objects (functors.py).  Every variant carries the same fields;  *)
(* `functors` is the child list of a Sequential or Parallel node.          *)
(***************************************************************************)
Functor(kind, name, default_input_files, default_extra_args, functors) ==
    [kind |-> kind, name |-> name,
     default_input_files |-> default_input_files,
     default_extra_args |-> default_extra_args,
     functors |-> functors]

BuiltinFunctor(name, default_extra_args) ==
    Functor("Builtin", name, Some(<<>>), default_extra_args, <<>>)

UserDefinedFunctor(name, default_input_files, default_extra_args) ==
    Functor("UserDefined", name, default_input_files, default_extra_args, <<>>)

SystemFunctor(name, default_extra_args) ==
    Functor("System", name, Some(<<>>), default_extra_args, <<>>)

SequentialFunctor(name, functors) ==
    Functor("Sequential", name, NoneOpt, NoneOpt, functors)

ParallelFunctor(name, functors) ==
    Functor("Parallel", name, NoneOpt, NoneOpt, functors)

\* A call contract that records every functor, System functors too.
should_record_history_always(self) == TRUE

should_record_history(self) == self.kind # "System"

\* A normalisation that lets unknown keys pass and ignores them.
normalize_input_accepts(self, payload) == FALSE

\* Functor._normalize_input: the fatal error on unknown keys ...
normalize_input_raises(self, payload) ==
    payload.keys # {} /\ payload.keys \ INPUT_FIELDS # {}

\* A normalisation that never looks at the functor's default input files.
normalize_input_no_default(self, context, payload) ==
    LET given_files == GetInputFiles(payload)
        given_args == GetExtraArgs(payload)
    IN InputPayload(INPUT_FIELDS,
           IF given_files # <<>> THEN given_files ELSE <<context.path>>,
           IF given_args = <<>> /\ self.default_extra_args # NoneOpt
           THEN self.default_extra_args[1] ELSE given_args)

\* A normalisation that fills in the extra arguments only and passes the
\* input files on as they were given, an empty list included.
normalize_input_files_as_given(self, context, payload) ==
    LET given_args == GetExtraArgs(payload)
    IN InputPayload(INPUT_FIELDS, GetInputFiles(payload),
           IF given_args = <<>> /\ self.default_extra_args # NoneOpt
           THEN self.default_extra_args[1] ELSE given_args)

\* ... and the normalized payload otherwise.
normalize_input(self, context, payload) ==
    LET given_files == GetInputFiles(payload)
        given_args == GetExtraArgs(payload)
        input_files ==
            IF given_files # <<>> THEN given_files
            ELSE IF self.default_input_files # NoneOpt
                 THEN self.default_input_files[1]
                 ELSE <<context.path>>
        extra_args ==
            IF given_args = <<>> /\ self.default_extra_args # NoneOpt
            THEN self.default_extra_args[1]
            ELSE given_args
    IN InputPayload(INPUT_FIELDS, input_files, extra_args)

\* Functor._validate_output: TRUE when it raises FunctorExecutionError.
validate_output_raises(payload) ==
    \/ ~payload.mapping
    \/ (OUTPUT_FIELDS \ payload.keys) \ {"error_message"} # {}
    \/ payload.keys \ OUTPUT_FIELDS # {}

(***************************************************************************)
(* Parser: command-word resolution and the composite nodes (parser.py).    *)
(* A command is given as its parse tree: a command of words, or the parts  *)
(* joined by "|" or ",".                                                   *)
(***************************************************************************)
Parsed(f) == [error |-> "none", functor |-> f]
ParseError(message) ==
    [error |-> message, functor |-> BuiltinFunctor(<<>>, NoneOpt)]

\* A parser that binds the handler early: an unregistered name is rejected.
create_system_functor_early(context, raw_name, args) ==
    IF raw_name = <<":">>
    THEN ParseError("System command name is missing.")
    ELSE IF Tail(raw_name) \notin DOMAIN context.system_funcs
    THEN ParseError("Unknown system command.")
    ELSE Parsed(SystemFunctor(Tail(raw_name), Some(args)))

create_system_functor(context, raw_name, args) ==
    IF raw_name = <<":">>
    THEN ParseError("System command name is missing.")
    ELSE Parsed(SystemFunctor(Tail(raw_name), Some(args)))

\* A split that sorts the words one by one: every word starting with "-"
\* is an extra argument, every other word an input file.
RECURSIVE split_user_args_by_flag(_, _, _)
split_user_args_by_flag(args, input_files, extra_args) ==
    IF args = <<>> THEN <<input_files, extra_args>>
    ELSE IF startswith(Head(args), "-")
         THEN split_user_args_by_flag(Tail(args), input_files,
                                      Append(extra_args, Head(args)))
    ELSE split_user_args_by_flag(Tail(args), Append(input_files, Head(args)),
                                 extra_args)

\* _split_user_args
RECURSIVE split_user_args(_, _, _)
split_user_args(args, input_files, extra_args) ==
    IF args = <<>> THEN <<input_files, extra_args>>
    ELSE IF extra_args # <<>>
         THEN split_user_args(Tail(args), input_files, Append(extra_args, Head(args)))
    ELSE IF startswith(Head(args), "-")
         THEN split_user_args(Tail(args), input_files, Append(extra_args, Head(args)))
    ELSE split_user_args(Tail(args), Append(input_files, Head(args)), extra_args)

\* _try_create_user_functor, when <scripts_path>/<name>.py is a file
create_user_functor(name, args) ==
    LET split == split_user_args(args, <<>>, <<>>)
        input_files == split[1]
        extra_args == split[2]
    IN IF extra_args # <<>> /\ ~startswith(extra_args[1], "-")
       THEN ParseError("User command extra arguments must start with '-'.")
       ELSE Parsed(UserDefinedFunctor(name,
                IF input_files # <<>> THEN Some(input_files) ELSE NoneOpt,
                IF extra_args # <<>> THEN Some(extra_args) ELSE NoneOpt))

create_builtin_functor(name, args) ==
    Parsed(BuiltinFunctor(name, IF args # <<>> THEN Some(args) ELSE NoneOpt))

\* A resolution that looks for the script file before the ":" prefix.
create_functor_script_first(context, name, args, files) ==
    IF name \in files THEN create_user_functor(name, args)
    ELSE IF startswith(name, ":") THEN create_system_functor(context, name, args)
    ELSE create_builtin_functor(name, args)

\* `files` is the set of names with a script file under context.scripts_path at
\* the moment of the parse.
create_functor(context, name, args, files) ==
    IF startswith(name, ":") THEN create_system_functor(context, name, args)
    ELSE IF name \in files THEN create_user_functor(name, args)
    ELSE create_builtin_functor(name, args)

Names(functors) == [i \in 1..Len(functors) |-> functors[i].name]

\* A parser that wraps a single part in a composite node as well.
compose_always(op, functors) ==
    IF op = "|"
    THEN SequentialFunctor(
             <<"sequential(">> \o Join(<<" | ">>, Names(functors)) \o <<")">>,
             functors)
    ELSE ParallelFunctor(
             <<"parallel(">> \o Join(<<", ">>, Names(functors)) \o <<")">>,
             functors)

\* The node _parse_sequential / _parse_parallel builds from its parts.
compose(op, functors) ==
    IF Len(functors) = 1 THEN functors[1]
    ELSE IF op = "|"
         THEN SequentialFunctor(
                  <<"sequential(">> \o Join(<<" | ">>, Names(functors)) \o <<")">>,
                  functors)
         ELSE ParallelFunctor(
                  <<"parallel(">> \o Join(<<", ">>, Names(functors)) \o <<")">>,
                  functors)

Command(words) == [op |-> "command", words |-> words, parts |-> <<>>]
Composite(op, parts) == [op |-> op, words |-> <<>>, parts |-> parts]

RECURSIVE parse_tree(_, _, _)
parse_tree(context, tree, files) ==
    IF tree.op = "command"
    THEN create_functor(context, Head(tree.words), Tail(tree.words), files)
    ELSE LET parsed == [i \in 1..Len(tree.parts) |->
                           parse_tree(context, tree.parts[i], files)]
             failed == {i \in 1..Len(parsed) : parsed[i].error # "none"}
         IN IF failed # {}
            THEN parsed[CHOOSE i \in failed : \A j \in failed : i <= j]
            ELSE Parsed(compose(tree.op,
                                [i \in 1..Len(parsed) |-> parsed[i].functor]))

(***************************************************************************)
(* The tokenizer.  A command text is a sequence of characters, a token is  *)
(* the sequence of its characters.                                         *)
(***************************************************************************)
Whitespace == {" ", "\n", "\t"}

Tokenized(toks) == [error |-> "none", tokens |-> toks, ran |-> TRUE]
TokenizeError(message) == [error |-> message, tokens |-> <<>>, ran |-> TRUE]

Quotes == {"'", "\""}
Specials == {"|", "(", ")", ","}
NoQuote == ""

\* if current: tokens.append("".join(current)); current = []
flush(toks, current) == IF current # <<>> THEN Append(toks, current) ELSE toks

\* A closing quote that emits a token only when text was accumulated.
close_quote_nonempty(toks, current) == flush(toks, current)

\* elif ch == quote: tokens.append("".join(current))
close_quote(toks, current) == Append(toks, current)

RECURSIVE tokenize_loop(_, _, _, _, _)
tokenize_loop(command, toks, current, quote, escaped) ==
    IF command = <<>>
    THEN IF quote # NoQuote
         THEN TokenizeError("Unterminated quote in command.")
         ELSE Tokenized(flush(toks, current))
    ELSE LET ch == Head(command)
             rest == Tail(command)
         IN IF quote # NoQuote
            THEN IF escaped
                 THEN tokenize_loop(rest, toks, Append(current, ch), quote, FALSE)
                 ELSE IF ch = "\\"
                 THEN tokenize_loop(rest, toks, current, quote, TRUE)
                 ELSE IF ch = quote
                 THEN tokenize_loop(rest, close_quote(toks, current), <<>>,
                                    NoQuote, escaped)
                 ELSE tokenize_loop(rest, toks, Append(current, ch), quote, escaped)
            ELSE IF ch \in Quotes
            THEN tokenize_loop(rest, flush(toks, current), <<>>, ch, escaped)
            ELSE IF ch \in Whitespace
            THEN tokenize_loop(rest, flush(toks, current), <<>>, quote, escaped)
            ELSE IF ch \in Specials
            THEN tokenize_loop(rest, Append(flush(toks, current), <<ch>>), <<>>,
                               quote, escaped)
            ELSE tokenize_loop(rest, toks, Append(current, ch), quote, escaped)

tokenize(command) == tokenize_loop(command, <<>>, <<>>, NoQuote, FALSE)

(***************************************************************************)
(* The recursive-descent parser over the token list.  A parse function     *)
(* returns [error, functor, pos]: the ParseError raised, or the functor     *)
(* built and the position after it.                                        *)
(***************************************************************************)
Comma == <<",">>
Pipe == <<"|">>
Open == <<"(">>
Close == <<")">>

At(parsed, pos) ==
    [error |-> parsed.error, functor |-> parsed.functor, pos |-> pos]

\* A grammar in which "|" separates the parts of a parallel expression and
\* "," the parts of a sequential one.
OperatorsSwapped == [parallel |-> Pipe, sequential |-> Comma]

\* The separators the loops of _parse_parallel and _parse_sequential look for.
Operators == [parallel |-> Comma, sequential |-> Pipe]

\* _peek: None at the end of the tokens.
peek(toks, pos) == IF pos >= Len(toks) THEN None ELSE toks[pos + 1]

\* The loop of _parse_command over the argument words.
RECURSIVE parse_args(_, _, _)
parse_args(toks, pos, args) ==
    LET token == peek(toks, pos)
    IN IF token = None \/ token \in {Pipe, Comma, Close}
       THEN [error |-> "none", args |-> args, pos |-> pos]
       ELSE IF token = Open
       THEN [error |-> "Unexpected token '(' in command arguments.",
             args |-> args, pos |-> pos]
       ELSE parse_args(toks, pos + 1, Append(args, token))

parse_command(context, toks, pos, files) ==
    LET token == peek(toks, pos)
    IN IF token = None
       THEN At(ParseError("Unexpected end of input."), pos)
       ELSE IF token \in {Pipe, Comma, Close, Open}
       THEN At(ParseError("Unexpected token."), pos)
       ELSE LET rest == parse_args(toks, pos + 1, <<>>)
            IN IF rest.error # "none"
               THEN At(ParseError(rest.error), rest.pos)
               ELSE At(create_functor(context, token, rest.args, files), rest.pos)

RECURSIVE parse_parallel(_, _, _, _)
RECURSIVE parse_sequential(_, _, _, _)
RECURSIVE parse_block(_, _, _, _)
RECURSIVE parse_parallel_more(_, _, _, _, _)
RECURSIVE parse_sequential_more(_, _, _, _, _)

parse_block(context, toks, pos, files) ==
    LET token == peek(toks, pos)
    IN IF token = Open
       THEN LET inner == parse_parallel(context, toks, pos + 1, files)
            IN IF inner.error # "none" THEN inner
               ELSE IF peek(toks, inner.pos) # Close
               THEN At(ParseError("Expected ')'."), inner.pos)
               ELSE At(inner, inner.pos + 1)
       ELSE IF token \in {Close, Pipe, Comma, None}
       THEN At(ParseError("Unexpected block boundary."), pos)
       ELSE parse_command(context, toks, pos, files)

\* while self._peek() == "|": functors.append(self._parse_block())
parse_sequential_more(context, toks, pos, files, functors) ==
    IF peek(toks, pos) = Operators.sequential
    THEN LET next == parse_block(context, toks, pos + 1, files)
         IN IF next.error # "none" THEN next
            ELSE parse_sequential_more(context, toks, next.pos, files,
                                       Append(functors, next.functor))
    ELSE At(Parsed(compose("|", functors)), pos)

parse_sequential(context, toks, pos, files) ==
    LET first == parse_block(context, toks, pos, files)
    IN IF first.error # "none" THEN first
       ELSE parse_sequential_more(context, toks, first.pos, files,
                                  <<first.functor>>)

\* while self._peek() == ",": functors.append(self._parse_sequential())
parse_parallel_more(context, toks, pos, files, functors) ==
    IF peek(toks, pos) = Operators.parallel
    THEN LET next == parse_sequential(context, toks, pos + 1, files)
         IN IF next.error # "none" THEN next
            ELSE parse_parallel_more(context, toks, next.pos, files,
                                     Append(functors, next.functor))
    ELSE At(Parsed(compose(",", functors)), pos)

parse_parallel(context, toks, pos, files) ==
    LET first == parse_sequential(context, toks, pos, files)
    IN IF first.error # "none" THEN first
       ELSE parse_parallel_more(context, toks, first.pos, files,
                                <<first.functor>>)

\* parse, after _tokenize: parse_expression, then expect_end
parse_tokens(context, toks, files) ==
    IF toks = <<>> THEN ParseError("Empty command.")
    ELSE LET result == parse_parallel(context, toks, 0, files)
         IN IF result.error # "none" THEN ParseError(result.error)
            ELSE IF result.pos # Len(toks) THEN ParseError("Unexpected token.")
            ELSE Parsed(result.functor)

\* parse(command, context)
parse(command, context, files) ==
    LET tokenized == tokenize(command)
    IN IF tokenized.error # "none" THEN ParseError(tokenized.error)
       ELSE parse_tokens(context, tokenized.tokens, files)

(***************************************************************************)
(* Builtin: the child process is the environment's; `completed` is what    *)
(* subprocess.run did (raised at spawn, or returned a CompletedProcess).   *)
(***************************************************************************)

RECURSIVE lstrip(_)
lstrip(s) == IF s # <<>> /\ Head(s) \in Whitespace THEN lstrip(Tail(s)) ELSE s

RECURSIVE rstrip(_)
rstrip(s) ==
    IF s # <<>> /\ s[Len(s)] \in Whitespace
    THEN rstrip(SubSeq(s, 1, Len(s) - 1))
    ELSE s

strip(s) == rstrip(lstrip(s))

RECURSIVE splitlines(_, _, _)
splitlines(s, current, lines) ==
    IF s = <<>> THEN (IF current # <<>> THEN Append(lines, current) ELSE lines)
    ELSE IF Head(s) = "\n" THEN splitlines(Tail(s), <<>>, Append(lines, current))
    ELSE splitlines(Tail(s), Append(current, Head(s)), lines)

\* A list comprehension without its filter: blank lines stay, as "".
RECURSIVE AllStripped(_)
AllStripped(lines) ==
    IF lines = <<>> THEN <<>>
    ELSE <<strip(Head(lines))>> \o AllStripped(Tail(lines))

RECURSIVE NonBlankStripped(_)
NonBlankStripped(lines) ==
    IF lines = <<>> THEN <<>>
    ELSE (IF strip(Head(lines)) # <<>> THEN <<strip(Head(lines))>> ELSE <<>>)
         \o NonBlankStripped(Tail(lines))

SpawnError(kind, message) ==
    [spawn |-> kind, error |-> message, returncode |-> 0,
     stdout |-> <<>>, stderr |-> <<>>]
Completed(returncode, stdout, stderr) ==
    [spawn |-> "ok", error |-> <<>>, returncode |-> returncode,
     stdout |-> stdout, stderr |-> stderr]

\* text=True: the captured streams are decoded as UTF-8; Undecodable stands
\* for output bytes that are not, on which subprocess.run raises.
Undecodable == <<"<bytes>">>

\* A failure message that is never null: a fixed text stands in for "".
or_generic(s) == IF s # <<>> THEN s ELSE <<"Command failed.">>

\* `error_message or None`
or_none(s) == IF s # <<>> THEN s ELSE None

BuiltinExecute(payload, completed) ==
    LET input_files == GetInputFiles(payload)
    IN IF completed.spawn = "FileNotFoundError"
       THEN Return(OutputPayload(input_files, FALSE, completed.error))
       ELSE IF completed.spawn # "ok"
       THEN Raise(completed.spawn, completed.error)
       ELSE IF Undecodable \in {completed.stdout, completed.stderr}
       THEN Raise("UnicodeDecodeError", <<"invalid start byte">>)
       ELSE LET is_success == completed.returncode = 0
                stdout_lines ==
                    NonBlankStripped(splitlines(completed.stdout, <<>>, <<>>))
                output_files ==
                    IF stdout_lines # <<>> THEN stdout_lines ELSE input_files
                error_message ==
                    IF ~is_success THEN strip(completed.stderr) ELSE <<>>
            IN Return(OutputPayload(output_files, is_success,
                                    or_none(error_message)))

(***************************************************************************)
(* UserDefined: the script writes its result to a scratch buffer file.     *)
(* `completed.buffer` is the file as the script left it.                   *)
(***************************************************************************)
Buffer(state, payload) == [state |-> state, payload |-> payload]

ScriptSpawnError(kind, message) ==
    [spawn |-> kind, error |-> message, returncode |-> 0, stderr |-> None,
     buffer |-> Buffer("empty", NonMapping)]
\* capture_output=False: the CompletedProcess carries stderr None.
ScriptCompleted(returncode, buffer) ==
    [spawn |-> "ok", error |-> <<>>, returncode |-> returncode, stderr |-> None,
     buffer |-> buffer]

\* _load_output_buffer: (payload, buffer_error), or the exception of read_text
load_output_buffer(buffer) ==
    CASE buffer.state = "missing" ->
            Return([payload |-> NonMapping,
                    buffer_error |-> <<"Script did not produce an output buffer.">>])
      [] buffer.state = "unreadable" ->
            Raise("PermissionError", <<"Permission denied">>)
      [] buffer.state = "undecodable" ->
            Raise("UnicodeDecodeError", <<"invalid start byte">>)
      [] buffer.state = "empty" ->
            Return([payload |-> NonMapping,
                    buffer_error |-> <<"Script wrote an empty output buffer.">>])
      [] buffer.state = "invalid" ->
            Return([payload |-> NonMapping,
                    buffer_error |-> <<"Invalid JSON output: ">>])
      [] OTHER ->
            Return([payload |-> buffer.payload, buffer_error |-> None])

\* A test that overrides the buffer when it did not itself report success.
exit_overrides_unless_success(completed, output_payload) ==
    /\ completed.returncode # 0
    /\ ~GetIsSuccess(output_payload)

\* An exit status that never overrides what the buffer reports.
exit_overrides_never(completed, output_payload) == FALSE

\* completed.returncode != 0 and output_payload.get("is_success", True)
exit_overrides_buffer(completed, output_payload) ==
    /\ completed.returncode # 0
    /\ ("is_success" \notin output_payload.keys \/ output_payload.is_success)

\* The scratch files left once execute has returned or raised, `path` being
\* the buffer of this invocation: created first, removed by the script or
\* not, removed by _cleanup_buffer on the paths that reach it.
cleanup_buffer(files, path) == files \ {path}

buffers_after(files, path, completed) ==
    LET created == files \cup {path}
    IN IF completed.spawn = "FileNotFoundError" THEN cleanup_buffer(created, path)
       ELSE IF completed.spawn # "ok" THEN created
       ELSE LET left == IF completed.buffer.state = "missing"
                        THEN created \ {path} ELSE created
            IN IF load_output_buffer(completed.buffer).exc # "none" THEN left
               ELSE cleanup_buffer(left, path)

UserDefinedExecute(payload, completed) ==
    LET input_files == GetInputFiles(payload)
        loaded == load_output_buffer(completed.buffer)
        output_payload == loaded.value.payload
        buffer_error == loaded.value.buffer_error
    IN IF completed.spawn = "FileNotFoundError"
       THEN Return(OutputPayload(input_files, FALSE, completed.error))
       ELSE IF completed.spawn # "ok"
       THEN Raise(completed.spawn, completed.error)
       ELSE IF loaded.exc # "none"
       THEN Raise(loaded.exc, loaded.message)
       ELSE IF Truthy(buffer_error)
       THEN Return(OutputPayload(input_files, FALSE, buffer_error))
       ELSE IF completed.returncode # 0 /\ ~output_payload.mapping
       THEN Raise("AttributeError", <<"object has no attribute 'get'">>)
       ELSE IF exit_overrides_buffer(completed, output_payload)
       THEN IF completed.stderr = None
            THEN Raise("AttributeError",
                       <<"'NoneType' object has no attribute 'strip'">>)
            ELSE Return(OutputPayload(
                     IF GetOutputFiles(output_payload) # <<>>
                     THEN GetOutputFiles(output_payload) ELSE input_files,
                     FALSE,
                     IF strip(completed.stderr) # <<>> THEN strip(completed.stderr)
                     ELSE <<"Script execution failed.">>))
       ELSE Return(output_payload)

(***************************************************************************)
(* The call contract, Functor.__call__, for a leaf functor: the set of     *)
(* outcomes [result, context] over what the environment (child process,    *)
(* handler) can do.                                                        *)
(***************************************************************************)
Outcome(result, context) == [result |-> result, context |-> context]

UnsupportedFields(self) ==
    Raise("FunctorExecutionError",
          <<"Functor '">> \o self.name \o <<"' received unsupported fields">>)

MalformedOutput(self) ==
    Raise("FunctorExecutionError",
          <<"Functor '">> \o self.name \o <<"' returned a malformed payload">>)

EmptyOutputFiles(self) ==
    Raise("FunctorExecutionError",
          <<"Functor '">> \o self.name \o <<"' produced an empty 'output_files' value.">>)

\* A call contract that records the successful calls only.
finish_call_success_only(self, context, normalized, output) ==
    IF output.exc # "none" THEN Outcome(output, context)
    ELSE IF validate_output_raises(output.value)
    THEN Outcome(MalformedOutput(self), context)
    ELSE Outcome(output,
                 IF should_record_history(self) /\ GetIsSuccess(output.value)
                 THEN record_history(context, self, normalized)
                 ELSE context)

\* A call contract that records the call before it validates the output.
finish_call_record_first(self, context, normalized, output) ==
    IF output.exc # "none" THEN Outcome(output, context)
    ELSE Outcome(IF validate_output_raises(output.value)
                 THEN MalformedOutput(self) ELSE output,
                 IF should_record_history(self)
                 THEN record_history(context, self, normalized)
                 ELSE context)

\* __call__ after execute: validate, record, return (functors.py 65-68)
finish_call(self, context, normalized, output) ==
    IF output.exc # "none" THEN Outcome(output, context)
    ELSE IF validate_output_raises(output.value)
    THEN Outcome(MalformedOutput(self), context)
    ELSE Outcome(output,
                 IF should_record_history(self)
                 THEN record_history(context, self, normalized)
                 ELSE context)

\* What the child process of a Builtin can do.
BuiltinRuns ==
    { SpawnError("PermissionError", <<"Permission denied">>),
      Completed(0, <<" ", "x", "\n", "\n", "y", "\n">>, <<>>),
      Completed(0, <<>>, <<>>),
      Completed(1, <<>>, <<"boom", "\n">>),
      Completed(1, <<>>, <<>>) }

\* What the script of a UserDefined can do.
ScriptRuns ==
    { ScriptCompleted(0, Buffer("json", OutputPayload(<<<<"u">>>>, TRUE, None))),
      ScriptCompleted(0, Buffer("json", OutputPayload(<<>>, TRUE, None))),
      ScriptCompleted(0, Buffer("json",
          [OutputPayload(<<<<"u">>>>, TRUE, None) EXCEPT !.keys = @ \cup {"junk"}])),
      ScriptCompleted(1, Buffer("json", OutputPayload(<<<<"u">>>>, TRUE, None))),
      ScriptCompleted(1, Buffer("json", OutputPayload(<<>>, FALSE, <<"bad">>))) }

RECURSIVE call_leaf(_, _, _, _)
RECURSIVE run_commands(_, _, _, _)

\* system_commands.run_command's loop over the commands still to run.  Each
\* command here is one word, so parse(cmd) is the command-word resolution.
run_commands(commands, last_result, context, files) ==
    IF commands = <<>>
    THEN {Outcome(Return(OutputPayload(GetOutputFiles(last_result), TRUE, None)),
                  context)}
    ELSE LET cmd == Head(commands)
             parsed == create_functor(context, cmd, <<>>, files)
         IN IF parsed.error # "none"
            THEN {Outcome(Raise("ParseError", <<parsed.error>>), context)}
            ELSE UNION {
                IF o.result.exc # "none" THEN {o}
                ELSE IF ~GetIsSuccess(o.result.value)
                THEN {Outcome(Return(OutputPayload(
                          GetOutputFiles(o.result.value), FALSE,
                          <<"Command '">> \o cmd \o <<"' failed: ">>
                          \o (IF GetErrorMessage(o.result.value) = None
                              THEN <<"None">>
                              ELSE GetErrorMessage(o.result.value)))),
                      o.context)}
                ELSE run_commands(Tail(commands), o.result.value, o.context, files)
                : o \in call_leaf(parsed.functor, context, NoPayload, files) }

run_command(payload, context, files) ==
    IF GetExtraArgs(payload) = <<>>
    THEN {Outcome(Return(OutputPayload(<<>>, FALSE,
                     <<"run requires commands in extra_args.">>)), context)}
    ELSE run_commands(GetExtraArgs(payload), OutputPayload(<<>>, TRUE, None),
                      context, files)

history_command(payload, context) ==
    {Outcome(Return(OutputPayload(context.history, TRUE, None)), context)}

\* the handler registered as "set" by tests/test_visualize.py
set_command(payload, context) ==
    {Outcome(Return(OutputPayload(<<>>, TRUE, None)), context)}

\* A handler is named by the function it is: "history" and "run" are module
\* functions, "set" is a lambda, which pickle refuses.
Handlers == {"history", "run", "set"}

\* A transfer that takes every handler along, as threads sharing the
\* registry would.
PicklableAlways(handler) == TRUE

Picklable(handler) == handler # "set"

handler_call(handler, payload, context, files) ==
    CASE handler = "history" -> history_command(payload, context)
      [] handler = "run" -> run_command(payload, context, files)
      [] OTHER -> set_command(payload, context)

SystemExecute(self, context, payload, files) ==
    IF self.name \notin DOMAIN context.system_funcs
    THEN {Outcome(Raise("FunctorExecutionError",
              <<"System functor '">> \o self.name
              \o <<"' is not registered in the context.">>), context)}
    ELSE handler_call(context.system_funcs[self.name], payload, context, files)

execute_leaf(self, context, payload, files) ==
    CASE self.kind = "Builtin" ->
            {Outcome(BuiltinExecute(payload, c), context) : c \in BuiltinRuns}
      [] self.kind = "UserDefined" ->
            {Outcome(UserDefinedExecute(payload, c), context) : c \in ScriptRuns}
      [] OTHER -> SystemExecute(self, context, payload, files)

call_leaf(self, context, payload, files) ==
    IF normalize_input_raises(self, payload)
    THEN {Outcome(UnsupportedFields(self), context)}
    ELSE LET normalized == normalize_input(self, context, payload)
         IN {finish_call(self, o.context, normalized, o.result) :
                o \in execute_leaf(self, context, normalized, files)}

(***************************************************************************)
(* The functor tree under execution.  A node is named by its path from the *)
(* root (<<>>); every node is called at most once per Engine.execute.      *)
(***************************************************************************)
RECURSIVE Paths(_)
Paths(f) ==
    {<<>>} \cup UNION {{<<i>> \o p : p \in Paths(f.functors[i])} :
                          i \in 1..Len(f.functors)}

RECURSIVE NodeAt(_, _)
NodeAt(f, p) == IF p = <<>> THEN f ELSE NodeAt(f.functors[Head(p)], Tail(p))

Node(p) == NodeAt(functor[1], p)
Parent(p) == SubSeq(p, 1, Len(p) - 1)
Child(p, i) == Append(p, i)
Children(p) == [i \in 1..Len(Node(p).functors) |-> Child(p, i)]

\* The process a node runs in: the caller's (<<>>), or the worker of the
\* nearest enclosing child of a Parallel node.
\* Workers that share the caller's context, as threads would.
ProcessRootShared(p) == <<>>

RECURSIVE ProcessRoot(_)
ProcessRoot(p) ==
    IF p = <<>> THEN <<>>
    ELSE IF Node(Parent(p)).kind = "Parallel" THEN p
    ELSE ProcessRoot(Parent(p))

Idle ==
    [status |-> "idle", payload |-> NoPayload, normalized |-> NoPayload,
     index |-> 0, result |-> Return(NonMapping)]

Called(payload) == [Idle EXCEPT !.status = "called", !.payload = payload]
Submitted(payload) == [Idle EXCEPT !.status = "submitted", !.payload = payload]

Done(p) == calls[p].status \in {"returned", "raised"}

\* The activation after its __call__ ended with `result`.
Ended(call, result) ==
    [call EXCEPT !.status = IF result.exc = "none" THEN "returned" ELSE "raised",
                 !.result = result]

(***************************************************************************)
(* The values the model draws its inputs from.                             *)
(***************************************************************************)
WorkDir == <<"/", "w">>
ScriptsDir == <<"/", "w", "/", "scripts">>
WordLs == <<"l", "s">>
WordScript == <<"f">>
WordSystem == <<":", "s">>
HandlerName == <<"s">>

\* the commands of one word list: a builtin, a script, a system command
LeafCommands ==
    {Command(<<WordLs>>), Command(<<WordScript>>), Command(<<WordSystem, WordLs>>)}

FlatCommands ==
    {Composite(op, parts) :
        op \in {"|", ","},
        parts \in UNION {[1..n -> LeafCommands] : n \in 2..MaxChildren}}

\* composites of two parts, exactly one of which is itself a composite of two
\* commands: "(a, b) | c", "a , (b | c)", ...
InnerCommands ==
    {Composite(op, parts) : op \in {"|", ","}, parts \in [1..2 -> LeafCommands]}

NestedCommands ==
    {Composite(op, parts) :
        op \in {"|", ","},
        parts \in {<<inner, leaf>> : inner \in InnerCommands, leaf \in LeafCommands}
                  \cup {<<leaf, inner>> : inner \in InnerCommands,
                                          leaf \in LeafCommands}}

Commands == LeafCommands \cup FlatCommands \cup NestedCommands

Payloads ==
    { NoPayload,
      InputPayload(INPUT_FIELDS, <<<<"a">>>>, <<<<"-", "v">>>>),
      InputPayload({"input_files", "bogus"}, <<<<"a">>>>, <<>>) }

(***************************************************************************)
(* Init: a Context as main.py constructs it, nothing parsed yet.           *)
(***************************************************************************)
\* Before _tokenize ran; before any child process ran.
NotTokenized == [error |-> "none", tokens |-> <<>>, ran |-> FALSE]
NoRun == [spawn |-> "none"]

Init ==
    /\ contexts = (<<>> :> Context(WorkDir, EmptyDict, ScriptsDir))
    /\ script_files = {WordScript}
    /\ functor = <<>>
    /\ calls = <<>>
    /\ finished = <<>>
    /\ parse_log = <<>>
    /\ source = <<>>
    /\ tokens = NotTokenized
    /\ run = NoRun
    /\ tmp_files = {}

\* No Engine.execute has begun.
NotStarted == IF functor = <<>> THEN TRUE ELSE calls[<<>>].status = "idle"

\* The host registers a handler: context.system_funcs[name] = handler.
RegisterHandler(name, handler) ==
    /\ NotStarted
    /\ name \notin DOMAIN contexts[<<>>].system_funcs
    /\ contexts' = [contexts EXCEPT
                       ![<<>>].system_funcs = (name :> handler) @@ @]
    /\ UNCHANGED <<script_files, functor, calls, finished, parse_log>>
    /\ UNCHANGED io_vars

\* Engine.parse
Parse(command) ==
    /\ parse_log = <<>>
    /\ LET parsed == parse_tree(contexts[<<>>], command, script_files)
       IN /\ parse_log' = <<[error |-> parsed.error,
                             handlers |-> DOMAIN contexts[<<>>].system_funcs]>>
          /\ IF parsed.error = "none"
             THEN /\ functor' = <<parsed.functor>>
                  /\ calls' = [p \in Paths(parsed.functor) |-> Idle]
             ELSE UNCHANGED <<functor, calls>>
    /\ UNCHANGED <<contexts, script_files, finished>>
    /\ UNCHANGED io_vars

\* Engine.execute: functor(context, payload)
Execute(payload) ==
    /\ functor # <<>>
    /\ calls[<<>>].status = "idle"
    /\ calls' = [calls EXCEPT ![<<>>] = Called(payload)]
    /\ UNCHANGED <<contexts, script_files, functor, finished, parse_log>>
    /\ UNCHANGED io_vars

\* The __call__ of node p ends: its activation becomes `call` and the context
\* of its process `context`; a worker task that ends is a finished future.
EndCall(p, call, context) ==
    /\ calls' = [calls EXCEPT ![p] = call]
    /\ contexts' = [contexts EXCEPT ![ProcessRoot(p)] = context]
    /\ finished' = IF ProcessRoot(p) = p /\ p # <<>>
                   THEN Append(finished, p) ELSE finished

\* The rest of a composite's __call__ once its execute ended with `output`.
Finish(p, output) ==
    LET o == finish_call(Node(p), contexts[ProcessRoot(p)],
                         calls[p].normalized, output)
    IN EndCall(p, Ended(calls[p], o.result), o.context)

\* __call__ of a Builtin, UserDefined or System functor, start to end.
LeafCall(p, kind) ==
    /\ calls[p].status = "called"
    /\ Node(p).kind = kind
    /\ LET root == ProcessRoot(p)
           self == Node(p)
           normalized ==
               IF normalize_input_raises(self, calls[p].payload) THEN NoPayload
               ELSE normalize_input(self, contexts[root], calls[p].payload)
       IN \E o \in call_leaf(self, contexts[root], calls[p].payload, script_files) :
            EndCall(p, Ended([calls[p] EXCEPT !.normalized = normalized], o.result),
                    o.context)
    /\ UNCHANGED <<script_files, functor, parse_log>>
    /\ UNCHANGED io_vars

BuiltinCall(p) == LeafCall(p, "Builtin")
UserDefinedCall(p) == LeafCall(p, "UserDefined")
SystemCall(p) == LeafCall(p, "System")

(***************************************************************************)
(* Sequential.                                                             *)
(***************************************************************************)
EndWith(output) == [do |-> "end", output |-> output, payload |-> NoPayload]
CallNext(payload) ==
    [do |-> "call", output |-> Return(NonMapping), payload |-> payload]

\* A loop that goes on to the next child after a failure.
sequential_after_failure(self, i, current_payload, result) ==
    IF result.exc # "none" THEN EndWith(result)
    ELSE IF i < Len(self.functors)
    THEN CallNext(InputPayload(INPUT_FIELDS, GetOutputFiles(result.value), <<>>))
    ELSE EndWith(result)

\* A loop that hands the caller's extra_args on to every child.
sequential_after_same_args(self, i, current_payload, result) ==
    IF result.exc # "none" THEN EndWith(result)
    ELSE IF ~GetIsSuccess(result.value) THEN EndWith(result)
    ELSE IF GetOutputFiles(result.value) = <<>>
    THEN EndWith(EmptyOutputFiles(self.functors[i]))
    ELSE IF i < Len(self.functors)
    THEN CallNext(InputPayload(INPUT_FIELDS, GetOutputFiles(result.value),
                               GetExtraArgs(current_payload)))
    ELSE EndWith(result)

\* One turn of the loop of SequentialFunctor.execute, child i having been
\* called with current_payload and ended with `result`: execute ends (returns
\* or raises), or the next child is called with a new current_payload.
sequential_after(self, i, current_payload, result) ==
    IF result.exc # "none" THEN EndWith(result)
    ELSE IF ~GetIsSuccess(result.value) THEN EndWith(result)
    ELSE IF GetOutputFiles(result.value) = <<>>
    THEN EndWith(EmptyOutputFiles(self.functors[i]))
    ELSE IF i < Len(self.functors)
    THEN CallNext(InputPayload(INPUT_FIELDS, GetOutputFiles(result.value), <<>>))
    ELSE EndWith(result)

\* SequentialFunctor: __call__ up to the call of the first child.
SequentialStart(p) ==
    /\ calls[p].status = "called"
    /\ Node(p).kind = "Sequential"
    /\ IF normalize_input_raises(Node(p), calls[p].payload)
       THEN EndCall(p, Ended(calls[p], UnsupportedFields(Node(p))),
                    contexts[ProcessRoot(p)])
       ELSE LET normalized ==
                    normalize_input(Node(p), contexts[ProcessRoot(p)],
                                    calls[p].payload)
                current_payload ==
                    InputPayload(INPUT_FIELDS, GetInputFiles(normalized),
                                 GetExtraArgs(normalized))
            IN /\ calls' = [calls EXCEPT
                      ![p] = [@ EXCEPT !.status = "running",
                                       !.normalized = normalized, !.index = 1],
                      ![Child(p, 1)] = Called(current_payload)]
               /\ UNCHANGED <<contexts, finished>>
    /\ UNCHANGED <<script_files, functor, parse_log>>
    /\ UNCHANGED io_vars

\* SequentialFunctor.execute from the return of child `index` to the call of
\* the next child, or to the end of __call__.
SequentialNext(p) ==
    /\ calls[p].status = "running"
    /\ Node(p).kind = "Sequential"
    /\ Done(Child(p, calls[p].index))
    /\ LET i == calls[p].index
           after == sequential_after(Node(p), i, calls[Child(p, i)].payload,
                                    calls[Child(p, i)].result)
       IN IF after.do = "end"
          THEN Finish(p, after.output)
          ELSE /\ calls' = [calls EXCEPT
                      ![p].index = i + 1,
                      ![Child(p, i + 1)] = Called(after.payload)]
               /\ UNCHANGED <<contexts, finished>>
    /\ UNCHANGED <<script_files, functor, parse_log>>
    /\ UNCHANGED io_vars

(***************************************************************************)
(* Parallel: one worker process per child, each with a derived context.    *)
(***************************************************************************)
\* _serialize_context_for_parallel: the keyword arguments of the worker's
\* Context; "system_funcs" is left out when no handler can be pickled.
serialize_context_for_parallel(context) ==
    LET picklable ==
            {n \in DOMAIN context.system_funcs : Picklable(context.system_funcs[n])}
    IN [path |-> context.path,
        scripts_path |-> context.scripts_path,
        system_funcs |->
            IF picklable = {} THEN EmptyDict
            ELSE [n \in picklable |-> context.system_funcs[n]]]

\* _execute_functor_parallel: worker_context = Context(**context_kwargs)
worker_context(context_kwargs) ==
    Context(context_kwargs.path, context_kwargs.system_funcs,
            context_kwargs.scripts_path)

\* A child payload that carries the input files only, as the later children
\* of a Sequential node get it.
functor_payload_files_only(normalized) ==
    InputPayload(INPUT_FIELDS, GetInputFiles(normalized), <<>>)

\* functor_payload: a fresh copy of base_input_files and base_extra_args
functor_payload(normalized) ==
    InputPayload(INPUT_FIELDS, GetInputFiles(normalized), GetExtraArgs(normalized))

\* ParallelFunctor: __call__ up to the submission of every child.
ParallelStart(p) ==
    /\ calls[p].status = "called"
    /\ Node(p).kind = "Parallel"
    /\ IF normalize_input_raises(Node(p), calls[p].payload)
       THEN EndCall(p, Ended(calls[p], UnsupportedFields(Node(p))),
                    contexts[ProcessRoot(p)])
       ELSE LET normalized ==
                    normalize_input(Node(p), contexts[ProcessRoot(p)],
                                    calls[p].payload)
            IN /\ calls' = [q \in DOMAIN calls |->
                      IF q = p
                      THEN [calls[p] EXCEPT !.status = "running",
                                            !.normalized = normalized]
                      ELSE IF q # <<>> /\ Parent(q) = p
                      THEN Submitted(functor_payload(normalized))
                      ELSE calls[q]]
               /\ UNCHANGED <<contexts, finished>>
    /\ UNCHANGED <<script_files, functor, parse_log>>
    /\ UNCHANGED io_vars

\* A worker process picks up the task of child c: it builds its own context
\* and calls the functor.
WorkerStart(c) ==
    /\ calls[c].status = "submitted"
    /\ contexts' = (c :> worker_context(serialize_context_for_parallel(
                            contexts[ProcessRoot(Parent(c))]))) @@ contexts
    /\ calls' = [calls EXCEPT ![c].status = "called"]
    /\ UNCHANGED <<script_files, functor, finished, parse_log>>
    /\ UNCHANGED io_vars

\* An executor that is left as soon as one task has failed or raised.
JoinedOrFailed(p) ==
    \/ \A i \in 1..Len(Node(p).functors) : Done(Child(p, i))
    \/ \E i \in 1..Len(Node(p).functors) :
           /\ Done(Child(p, i))
           /\ \/ calls[Child(p, i)].status = "raised"
              \/ ~GetIsSuccess(calls[Child(p, i)].result.value)

\* The executor's `with` block is left once every submitted task is done.
Joined(p) == \A i \in 1..Len(Node(p).functors) : Done(Child(p, i))

\* The tasks of p in the order they ended, as as_completed would give them.
TasksAsCompleted(p) ==
    LET IsTask(q) == Len(q) = Len(p) + 1 /\ Parent(q) = p
    IN SelectSeq(finished, IsTask)

\* The list `tasks`: (functor, future) pairs in the order of self.functors.
Tasks(p) == Children(p)

\* An aggregation that returns what the succeeding children produced even
\* when a sibling failed.
RECURSIVE collect_partial(_, _, _, _)
collect_partial(tasks, combined_outputs, errors, base_input_files) ==
    IF tasks = <<>>
    THEN IF errors # <<>>
         THEN Return(OutputPayload(combined_outputs, FALSE, Join(<<"; ">>, errors)))
         ELSE Return(OutputPayload(combined_outputs, TRUE, None))
    ELSE LET task == Head(tasks)
             result == task.result
         IN IF result.exc # "none"
            THEN collect_partial(Tail(tasks), combined_outputs,
                         Append(errors, task.functor.name \o <<": ">> \o result.message),
                         base_input_files)
            ELSE IF ~GetIsSuccess(result.value)
            THEN collect_partial(Tail(tasks), combined_outputs,
                         Append(errors, task.functor.name \o <<": ">>
                             \o (IF Truthy(GetErrorMessage(result.value))
                                 THEN GetErrorMessage(result.value)
                                 ELSE <<"Unknown error.">>)),
                         base_input_files)
            ELSE IF GetOutputFiles(result.value) = <<>>
            THEN EmptyOutputFiles(task.functor)
            ELSE collect_partial(Tail(tasks),
                         combined_outputs \o GetOutputFiles(result.value),
                         errors, base_input_files)

\* An aggregation that lets a worker's exception through.
RECURSIVE collect_reraise(_, _, _, _)
collect_reraise(tasks, combined_outputs, errors, base_input_files) ==
    IF tasks = <<>>
    THEN IF errors # <<>>
         THEN Return(OutputPayload(base_input_files, FALSE, Join(<<"; ">>, errors)))
         ELSE Return(OutputPayload(combined_outputs, TRUE, None))
    ELSE LET task == Head(tasks)
             result == task.result
         IN IF result.exc # "none"
            THEN result
            ELSE IF ~GetIsSuccess(result.value)
            THEN collect_reraise(Tail(tasks), combined_outputs,
                         Append(errors, task.functor.name \o <<": ">>
                             \o (IF Truthy(GetErrorMessage(result.value))
                                 THEN GetErrorMessage(result.value)
                                 ELSE <<"Unknown error.">>)),
                         base_input_files)
            ELSE IF GetOutputFiles(result.value) = <<>>
            THEN EmptyOutputFiles(task.functor)
            ELSE collect_reraise(Tail(tasks),
                         combined_outputs \o GetOutputFiles(result.value),
                         errors, base_input_files)

\* A message taken as the child gave it, null or empty included.
error_as_given(message) == message

\* `result.get("error_message") or "Unknown error."`
error_or_unknown(message) ==
    IF Truthy(message) THEN message ELSE <<"Unknown error.">>

\* The aggregation loop of ParallelFunctor.execute over `tasks`.
RECURSIVE collect(_, _, _, _)
collect(tasks, combined_outputs, errors, base_input_files) ==
    IF tasks = <<>>
    THEN IF errors # <<>>
         THEN Return(OutputPayload(base_input_files, FALSE, Join(<<"; ">>, errors)))
         ELSE Return(OutputPayload(combined_outputs, TRUE, None))
    ELSE LET task == Head(tasks)
             result == task.result
         IN IF result.exc # "none"
            THEN collect(Tail(tasks), combined_outputs,
                         Append(errors, task.functor.name \o <<": ">> \o result.message),
                         base_input_files)
            ELSE IF ~GetIsSuccess(result.value)
            THEN collect(Tail(tasks), combined_outputs,
                         Append(errors, task.functor.name \o <<": ">>
                             \o error_or_unknown(GetErrorMessage(result.value))),
                         base_input_files)
            ELSE IF GetOutputFiles(result.value) = <<>>
            THEN EmptyOutputFiles(task.functor)
            ELSE collect(Tail(tasks),
                         combined_outputs \o GetOutputFiles(result.value),
                         errors, base_input_files)

\* ParallelFunctor.execute after the `with` block: aggregate, end __call__.
ParallelCollect(p) ==
    /\ calls[p].status = "running"
    /\ Node(p).kind = "Parallel"
    /\ Joined(p)
    /\ LET tasks == [i \in 1..Len(Tasks(p)) |->
                        [functor |-> Node(Tasks(p)[i]),
                         result |-> calls[Tasks(p)[i]].result]]
       IN Finish(p, collect(tasks, <<>>, <<>>,
                            GetInputFiles(calls[p].normalized)))
    /\ UNCHANGED <<script_files, functor, parse_log>>
    /\ UNCHANGED io_vars

(***************************************************************************)
(* Specifications.                                                         *)
(***************************************************************************)
\* The parsed tree holds a System functor of that name.
RefersTo(name) ==
    /\ functor # <<>>
    /\ \E p \in DOMAIN calls : Node(p).kind = "System" /\ Node(p).name = name

\* The steps of a running Engine.execute.
Step ==
    \/ \E p \in DOMAIN calls : BuiltinCall(p)
    \/ \E p \in DOMAIN calls : UserDefinedCall(p)
    \/ \E p \in DOMAIN calls : SystemCall(p)
    \/ \E p \in DOMAIN calls : SequentialStart(p)
    \/ \E p \in DOMAIN calls : SequentialNext(p)
    \/ \E p \in DOMAIN calls : ParallelStart(p)
    \/ \E p \in DOMAIN calls : WorkerStart(p)
    \/ \E p \in DOMAIN calls : ParallelCollect(p)

\* One command: handlers the command names may be registered once it is
\* parsed, then it is executed.
Next ==
    \/ \E h \in Handlers : RefersTo(HandlerName) /\ RegisterHandler(HandlerName, h)
    \/ \E c \in Commands : Parse(c)
    \/ \E payload \in Payloads : Execute(payload)
    \/ Step

Spec == Init /\ [][Next]_vars

\* Commands of one System functor, and a host that registers handlers at any
\* moment before the call: before the parse as well as after it.
SystemCommands ==
    { Command(<<WordSystem>>), Command(<<WordSystem, WordLs>>),
      Command(<<WordSystem, <<"-", "v">>>>) }

NextLate ==
    \/ \E h \in Handlers : RegisterHandler(HandlerName, h)
    \/ \E c \in SystemCommands : Parse(c)
    \/ \E payload \in Payloads : Execute(payload)
    \/ \E p \in DOMAIN calls : SystemCall(p)

SpecLate == Init /\ [][NextLate]_vars

\* Commands of one Parallel node, a Builtin or UserDefined child followed by
\* Builtin children, the workers scheduled fairly.
ParallelCommands ==
    { Composite(",", <<first>> \o [i \in 1..(n - 1) |-> Command(<<WordLs>>)]) :
          first \in {Command(<<WordLs>>), Command(<<WordScript>>)},
          n \in 2..MaxChildren }

StepJoin ==
    \/ \E p \in DOMAIN calls : BuiltinCall(p)
    \/ \E p \in DOMAIN calls : UserDefinedCall(p)
    \/ \E p \in DOMAIN calls : ParallelStart(p)
    \/ \E p \in DOMAIN calls : WorkerStart(p)
    \/ \E p \in DOMAIN calls : ParallelCollect(p)

NextJoin ==
    \/ \E c \in ParallelCommands : Parse(c)
    \/ \E payload \in Payloads : Execute(payload)
    \/ StepJoin

\* Worker processes and child processes are scheduled by the operating
\* system and every child process here ends: a step that can be taken is taken.
FairJoin == Init /\ [][NextJoin]_vars /\ WF_vars(StepJoin)

(***************************************************************************)
(* The tokenizer on every short text, the parser on every short token      *)
(* list, and on the commands of tests/test_visualize.py's kind.            *)
(***************************************************************************)
Characters == {"a", " ", "|", "'", "\"", "\\"}

QuotedExample ==
    <<"a", " ", "'", "b", " ", "c", "'", " ", "\"", "d", "\\", "\"", "e", "\"">>

Texts == UNION {[1..n -> Characters] : n \in 0..MaxChars} \cup {QuotedExample}

Words == {<<"a">>, <<"b">>}

PrecedenceExample ==
    <<<<"a">>, Pipe, <<"b">>, Comma, <<"c">>, Pipe, <<"d">>>>
GroupingExample ==
    <<Open, <<"a">>, Comma, <<"b">>, Close, Pipe, <<"c">>>>

TokenLists ==
    UNION {[1..n -> Words \cup {Pipe, Comma, Open, Close}] : n \in 0..MaxTokens}
        \cup {PrecedenceExample, GroupingExample}

InitTokenize ==
    /\ contexts = (<<>> :> Context(WorkDir, EmptyDict, ScriptsDir))
    /\ script_files = {WordScript}
    /\ functor = <<>>
    /\ calls = <<>>
    /\ finished = <<>>
    /\ parse_log = <<>>
    /\ source \in Texts
    /\ tokens = NotTokenized
    /\ run = NoRun
    /\ tmp_files = {}

\* tokens = _tokenize(command)
Tokenize ==
    /\ ~tokens.ran
    /\ tokens' = tokenize(source)
    /\ UNCHANGED <<contexts, script_files, functor, calls, finished, parse_log,
                   source, run, tmp_files>>

SpecTokenize == InitTokenize /\ [][Tokenize]_vars

InitParser ==
    /\ contexts = (<<>> :> Context(WorkDir, EmptyDict, ScriptsDir))
    /\ script_files = {WordScript}
    /\ functor = <<>>
    /\ calls = <<>>
    /\ finished = <<>>
    /\ parse_log = <<>>
    /\ source = <<>>
    /\ tokens \in {Tokenized(toks) : toks \in TokenLists}
    /\ run = NoRun
    /\ tmp_files = {}

\* parse, from the token list on
ParseTokens ==
    /\ parse_log = <<>>
    /\ tokens.ran
    /\ tokens.error = "none"
    /\ LET parsed == parse_tokens(contexts[<<>>], tokens.tokens, script_files)
       IN /\ parse_log' = <<[error |-> parsed.error,
                             handlers |-> DOMAIN contexts[<<>>].system_funcs]>>
          /\ IF parsed.error = "none"
             THEN /\ functor' = <<parsed.functor>>
                  /\ calls' = [p \in Paths(parsed.functor) |-> Idle]
             ELSE UNCHANGED <<functor, calls>>
    /\ UNCHANGED <<contexts, script_files, finished>>
    /\ UNCHANGED io_vars

SpecParser == InitParser /\ [][ParseTokens]_vars

(***************************************************************************)
(* parse(command): _tokenize, then the parser, on command lines that hold  *)
(* one quoted character, an ordinary one or an operator character.         *)
(***************************************************************************)
QuotedCharacters == {"a", "|", ",", "(", ")"}

QuoteTexts ==
    { first \o <<" ", quote, ch, quote>> \o rest :
          first \in {WordLs, WordScript},
          quote \in Quotes,
          ch \in QuotedCharacters,
          rest \in {<<>>, <<" ">> \o WordLs, <<" ", "|", " ">> \o WordLs} }

InitQuote ==
    /\ contexts = (<<>> :> Context(WorkDir, EmptyDict, ScriptsDir))
    /\ script_files = {WordScript}
    /\ functor = <<>>
    /\ calls = <<>>
    /\ finished = <<>>
    /\ parse_log = <<>>
    /\ source \in QuoteTexts
    /\ tokens = NotTokenized
    /\ run = NoRun
    /\ tmp_files = {}

NextQuote == Tokenize \/ ParseTokens

SpecQuote == InitQuote /\ [][NextQuote]_vars

\* The command of a user script followed by any argument words.
MaxArgs == 4
ArgWords == {<<"a">>, <<"-", "v">>, <<"-">>, <<"b", "-">>}
ArgLists == UNION {[1..n -> ArgWords] : n \in 0..MaxArgs}

InitSplit ==
    /\ contexts = (<<>> :> Context(WorkDir, EmptyDict, ScriptsDir))
    /\ script_files = {WordScript}
    /\ functor = <<>>
    /\ calls = <<>>
    /\ finished = <<>>
    /\ parse_log = <<>>
    /\ source = <<>>
    /\ tokens \in {Tokenized(<<WordScript>> \o args) : args \in ArgLists}
    /\ run = NoRun
    /\ tmp_files = {}

SpecSplit == InitSplit /\ [][ParseTokens]_vars

(***************************************************************************)
(* The interactive loop of main.py: one parse per line, while script files *)
(* come and go in the scripts directory between the lines.  parse_log      *)
(* holds the parses, the latest first, each with the script files present  *)
(* when it ran.                                                            *)
(***************************************************************************)
ResolveWords == {WordLs, WordScript, WordSystem}

Lines ==
    {<<w>> : w \in ResolveWords}
    \cup {<<WordScript, Pipe, WordLs>>, <<WordSystem, Comma, WordScript>>}

InitResolve ==
    /\ contexts = (<<>> :> Context(WorkDir, EmptyDict, ScriptsDir))
    /\ script_files = {WordScript}
    /\ functor = <<>>
    /\ calls = <<>>
    /\ finished = <<>>
    /\ parse_log = <<>>
    /\ source = <<>>
    /\ tokens = NotTokenized
    /\ run = NoRun
    /\ tmp_files = {}

\* <scripts_path>/<name>.py is created
AddScript(name) ==
    /\ name \notin script_files
    /\ script_files' = script_files \cup {name}
    /\ UNCHANGED <<contexts, functor, calls, finished, parse_log>>
    /\ UNCHANGED io_vars

\* <scripts_path>/<name>.py is removed
RemoveScript(name) ==
    /\ name \in script_files
    /\ script_files' = script_files \ {name}
    /\ UNCHANGED <<contexts, functor, calls, finished, parse_log>>
    /\ UNCHANGED io_vars

\* engine.parse of one line of the loop, up to the token list ...
ReadLine(toks) ==
    /\ Len(parse_log) < MaxParses
    /\ ~tokens.ran
    /\ tokens' = Tokenized(toks)
    /\ UNCHANGED <<contexts, script_files, functor, calls, finished, parse_log,
                   source, run, tmp_files>>

\* The loop keeps what the parser returned (or the ParseError it raised).
Resolved(parsed) ==
    /\ parse_log' =
           <<[error |-> parsed.error,
              handlers |-> DOMAIN contexts[<<>>].system_funcs,
              files |-> script_files,
              tokens |-> tokens.tokens,
              functor |-> IF parsed.error = "none"
                          THEN <<parsed.functor>> ELSE <<>>]>>
           \o parse_log
    /\ IF parsed.error = "none"
       THEN /\ functor' = <<parsed.functor>>
            /\ calls' = [p \in Paths(parsed.functor) |-> Idle]
       ELSE UNCHANGED <<functor, calls>>

\* ... and from the token list on: the script files are looked up now.
ParseLine ==
    /\ tokens.ran
    /\ Resolved(parse_tokens(contexts[<<>>], tokens.tokens, script_files))
    /\ tokens' = NotTokenized
    /\ UNCHANGED <<contexts, script_files, finished, source, run, tmp_files>>

NextResolve ==
    \/ \E name \in ResolveWords : AddScript(name)
    \/ \E name \in ResolveWords : RemoveScript(name)
    \/ \E toks \in Lines : ReadLine(toks)
    \/ ParseLine

SpecResolve == InitResolve /\ [][NextResolve]_vars

(***************************************************************************)
(* Functors called directly, as a host or a test does, over everything the *)
(* child process or the script can do.  run[p] is what the process of leaf *)
(* p did; tmp_files holds the scratch buffers that exist, a buffer being   *)
(* named by the node whose invocation allocated it.                        *)
(***************************************************************************)
Ls == BuiltinFunctor(WordLs, NoneOpt)
Script == UserDefinedFunctor(WordScript, NoneOpt, NoneOpt)
ScriptWithFiles == UserDefinedFunctor(WordScript, Some(<<<<"d">>>>), NoneOpt)

RunFunctors ==
    { Ls, Script, ScriptWithFiles, SystemFunctor(HandlerName, NoneOpt),
      compose("|", <<Ls, Script>>), compose("|", <<Script, Ls>>),
      compose(",", <<Ls, Script>>), compose(",", <<Script, Ls>>) }

\* no payload, a payload without the input_files key, one with an empty list,
\* one with files, one with a key that is no input field
RunPayloads ==
    { NoPayload,
      InputPayload({"extra_args"}, <<>>, <<<<"-", "v">>>>),
      InputPayload(INPUT_FIELDS, <<>>, <<>>),
      InputPayload(INPUT_FIELDS, <<<<"a">>>>, <<>>),
      InputPayload({"input_files", "bogus"}, <<<<"a">>>>, <<>>) }

ProcessRuns ==
    { SpawnError("FileNotFoundError", <<"No such file or directory">>),
      SpawnError("PermissionError", <<"Permission denied">>),
      Completed(0, <<"x", "\n">>, <<>>),
      Completed(0, <<" ", "x", "\n", "\n", "y", " ", "\n">>, <<>>),
      Completed(0, <<" ", "\n">>, <<>>),
      Completed(0, Undecodable, <<>>),
      Completed(0, <<>>, <<"warn", "\n">>),
      Completed(1, <<>>, <<"boom", "\n">>),
      Completed(1, <<>>, <<" ", "\n">>),
      Completed(1, <<>>, <<>>) }

Buffers ==
    { Buffer("missing", NonMapping),
      Buffer("unreadable", NonMapping),
      Buffer("undecodable", NonMapping),
      Buffer("empty", NonMapping),
      Buffer("invalid", NonMapping),
      Buffer("json", NonMapping),
      Buffer("json", OutputPayload(<<<<"u">>>>, TRUE, None)),
      Buffer("json", [OutputPayload(<<<<"u">>>>, TRUE, None)
                         EXCEPT !.keys = {"output_files"}]),
      Buffer("json", [OutputPayload(<<<<"u">>>>, TRUE, None)
                         EXCEPT !.keys = @ \cup {"junk"}]),
      Buffer("json", OutputPayload(<<<<"u">>>>, FALSE, <<"bad">>)),
      Buffer("json", OutputPayload(<<<<"u">>>>, FALSE, None)),
      Buffer("json", [OutputPayload(<<<<"u">>>>, FALSE, None)
                         EXCEPT !.keys = {"output_files", "is_success"}]) }

ScriptOutcomes ==
    { ScriptSpawnError("FileNotFoundError", <<"No such file or directory">>),
      ScriptSpawnError("NotADirectoryError", <<"Not a directory">>) }
    \cup {ScriptCompleted(returncode, buffer) :
             returncode \in {0, 1}, buffer \in Buffers}

InitRun ==
    /\ contexts = (<<>> :> Context(WorkDir, (HandlerName :> "history"), ScriptsDir))
    /\ script_files = {WordScript}
    /\ functor \in {<<f>> : f \in RunFunctors}
    /\ calls = [p \in Paths(functor[1]) |-> Idle]
    /\ finished = <<>>
    /\ parse_log = <<>>
    /\ source = <<>>
    /\ tokens = NotTokenized
    /\ run = [p \in Paths(functor[1]) |-> NoRun]
    /\ tmp_files = {}

\* Functor.__call__ of a Builtin or UserDefined functor whose child process
\* does `completed`: the result and the context after it.
call_with(self, context, payload, completed) ==
    IF normalize_input_raises(self, payload)
    THEN Outcome(UnsupportedFields(self), context)
    ELSE finish_call(self, context, normalize_input(self, context, payload),
                     IF self.kind = "Builtin"
                     THEN BuiltinExecute(normalize_input(self, context, payload),
                                         completed)
                     ELSE UserDefinedExecute(normalize_input(self, context, payload),
                                             completed))

\* __call__ of the Builtin or UserDefined leaf p, start to end, its child
\* process doing `completed`.
LeafRun(p, completed) ==
    /\ calls[p].status = "called"
    /\ LET root == ProcessRoot(p)
           self == Node(p)
           raises == normalize_input_raises(self, calls[p].payload)
           normalized == IF raises THEN NoPayload
                         ELSE normalize_input(self, contexts[root], calls[p].payload)
           o == call_with(self, contexts[root], calls[p].payload, completed)
       IN /\ EndCall(p, Ended([calls[p] EXCEPT !.normalized = normalized],
                              o.result), o.context)
          /\ run' = IF raises THEN run ELSE [run EXCEPT ![p] = completed]
          /\ tmp_files' = IF raises \/ self.kind = "Builtin" THEN tmp_files
                          ELSE buffers_after(tmp_files, p, completed)
    /\ UNCHANGED <<script_files, functor, parse_log, source, tokens>>

BuiltinRun(p, completed) ==
    /\ Node(p).kind = "Builtin"
    /\ LeafRun(p, completed)

ScriptRun(p, completed) ==
    /\ Node(p).kind = "UserDefined"
    /\ LeafRun(p, completed)

NextRun ==
    \/ \E payload \in RunPayloads : Execute(payload)
    \/ \E p \in DOMAIN calls : \E completed \in ProcessRuns : BuiltinRun(p, completed)
    \/ \E p \in DOMAIN calls : \E completed \in ScriptOutcomes : ScriptRun(p, completed)
    \/ \E p \in DOMAIN calls : SystemCall(p)
    \/ \E p \in DOMAIN calls : SequentialStart(p)
    \/ \E p \in DOMAIN calls : SequentialNext(p)
    \/ \E p \in DOMAIN calls : ParallelStart(p)
    \/ \E p \in DOMAIN calls : WorkerStart(p)
    \/ \E p \in DOMAIN calls : ParallelCollect(p)

SpecRun == InitRun /\ [][NextRun]_vars

(***************************************************************************)
(* The pipeline driver (pipeline.py).  The activation of pipe_process is   *)
(* the root of the tree, a node of kind "Pipeline" over the flat list of   *)
(* functors it is given; its stages are called as the children of a        *)
(* Sequential node are.                                                    *)
(***************************************************************************)
Pipeline(functors) == Functor("Pipeline", <<"pipe">>, NoneOpt, NoneOpt, functors)

\* _normalize_initial_payload: the fatal error on unknown keys ...
normalize_initial_payload_raises(payload) ==
    payload.keys # {} /\ payload.keys \ INPUT_FIELDS # {}

\* ... and the first current_payload otherwise.
normalize_initial_payload(context, payload) ==
    InputPayload(INPUT_FIELDS,
                 IF "input_files" \in payload.keys THEN payload.input_files
                 ELSE <<context.path>>,
                 IF "extra_args" \in payload.keys THEN payload.extra_args
                 ELSE <<>>)

\* failure_output = dict(result); failure_output.setdefault("failed_at", name)
failure_output(result, name) ==
    IF "failed_at" \in result.keys THEN result
    ELSE [failed_at |-> name] @@ [result EXCEPT !.keys = @ \cup {"failed_at"}]

\* One turn of the loop of pipe_process, stage i having ended with `result`.
pipe_after(functors, i, result) ==
    IF result.exc # "none" THEN EndWith(result)
    ELSE IF ~GetIsSuccess(result.value)
    THEN EndWith(Return(failure_output(result.value, functors[i].name)))
    ELSE IF GetOutputFiles(result.value) = <<>>
    THEN EndWith(EmptyOutputFiles(functors[i]))
    ELSE IF i < Len(functors)
    THEN CallNext(InputPayload(INPUT_FIELDS, GetOutputFiles(result.value), <<>>))
    ELSE EndWith(result)

\* A return that writes the annotation into the functor's own payload object.
pipe_return_in_place(activations, p, i, output) ==
    [activations EXCEPT
        ![p] = Ended(@, output),
        ![Child(p, i)].result = IF output.exc = "none" THEN output ELSE @]

\* pipe_process returns or raises: what it returns on failure is a new dict,
\* the activation of stage i keeps the object the functor returned.
pipe_return(activations, p, i, output) ==
    [activations EXCEPT ![p] = Ended(@, output)]

\* pipe_process up to the call of the first functor.
PipeStart(p) ==
    /\ calls[p].status = "called"
    /\ Node(p).kind = "Pipeline"
    /\ IF Node(p).functors = <<>>
       THEN calls' = pipe_return(calls, p, 0,
                Raise("ValueError", <<"pipe_process requires at least one functor.">>))
       ELSE IF normalize_initial_payload_raises(calls[p].payload)
       THEN calls' = pipe_return(calls, p, 0,
                Raise("FunctorExecutionError",
                      <<"Pipeline received unsupported fields">>))
       ELSE calls' = [calls EXCEPT
                ![p] = [@ EXCEPT !.status = "running", !.index = 1,
                           !.normalized = normalize_initial_payload(
                                              contexts[<<>>], calls[p].payload)],
                ![Child(p, 1)] = Called(normalize_initial_payload(
                                            contexts[<<>>], calls[p].payload))]
    /\ UNCHANGED <<contexts, script_files, functor, finished, parse_log>>
    /\ UNCHANGED io_vars

\* pipe_process from the return of stage `index` to the call of the next
\* stage, or to its own return.
PipeNext(p) ==
    /\ calls[p].status = "running"
    /\ Node(p).kind = "Pipeline"
    /\ Done(Child(p, calls[p].index))
    /\ LET i == calls[p].index
           after == pipe_after(Node(p).functors, i, calls[Child(p, i)].result)
       IN IF after.do = "end"
          THEN calls' = pipe_return(calls, p, i, after.output)
          ELSE calls' = [calls EXCEPT
                   ![p].index = i + 1,
                   ![Child(p, i + 1)] = Called(after.payload)]
    /\ UNCHANGED <<contexts, script_files, functor, finished, parse_log>>
    /\ UNCHANGED io_vars

PipeStages == {Ls, Script, ScriptWithFiles}

InitPipe ==
    /\ contexts = (<<>> :> Context(WorkDir, EmptyDict, ScriptsDir))
    /\ script_files = {WordScript}
    /\ functor \in {<<Pipeline(functors)>> :
                      functors \in UNION {[1..n -> PipeStages] : n \in 0..MaxChildren}}
    /\ calls = [p \in Paths(functor[1]) |-> Idle]
    /\ finished = <<>>
    /\ parse_log = <<>>
    /\ source = <<>>
    /\ tokens = NotTokenized
    /\ run = [p \in Paths(functor[1]) |-> NoRun]
    /\ tmp_files = {}

NextPipe ==
    \/ \E payload \in RunPayloads : Execute(payload)
    \/ \E p \in DOMAIN calls : PipeStart(p)
    \/ \E p \in DOMAIN calls : PipeNext(p)
    \/ \E p \in DOMAIN calls : \E completed \in ProcessRuns : BuiltinRun(p, completed)
    \/ \E p \in DOMAIN calls : \E completed \in ScriptOutcomes : ScriptRun(p, completed)

SpecPipe == InitPipe /\ [][NextPipe]_vars

(***************************************************************************)
(* A Parallel node called with a context whose registry holds any handlers *)
(* under two names, those pickle transfers and those it refuses.           *)
(***************************************************************************)
OtherName == <<"t">>

Registries ==
    UNION {[names -> Handlers] : names \in SUBSET {HandlerName, OtherName}}

WorkerFunctors ==
    { compose(",", <<SystemFunctor(HandlerName, NoneOpt), Ls>>),
      compose(",", <<SystemFunctor(OtherName, NoneOpt),
                     SystemFunctor(HandlerName, NoneOpt)>>) }

InitWorker ==
    /\ contexts \in {(<<>> :> Context(WorkDir, system_funcs, ScriptsDir)) :
                        system_funcs \in Registries}
    /\ script_files = {WordScript}
    /\ functor \in {<<f>> : f \in WorkerFunctors}
    /\ calls = [p \in Paths(functor[1]) |-> Idle]
    /\ finished = <<>>
    /\ parse_log = <<>>
    /\ source = <<>>
    /\ tokens = NotTokenized
    /\ run = [p \in Paths(functor[1]) |-> NoRun]
    /\ tmp_files = {}

NextWorker ==
    \/ \E payload \in RunPayloads : Execute(payload)
    \/ \E p \in DOMAIN calls : ParallelStart(p)
    \/ \E p \in DOMAIN calls : WorkerStart(p)
    \/ \E p \in DOMAIN calls : SystemCall(p)
    \/ \E p \in DOMAIN calls : \E completed \in ProcessRuns : BuiltinRun(p, completed)
    \/ \E p \in DOMAIN calls : ParallelCollect(p)

SpecWorker == InitWorker /\ [][NextWorker]_vars

(***************************************************************************)
(* Sequential nodes over every kind of child: commands, a nested           *)
(* Sequential, a Parallel and a System functor whose handler is the        *)
(* history listing or the command runner.                                  *)
(***************************************************************************)
HistoryFunctors ==
    { compose("|", <<Ls, Script>>),
      compose("|", <<compose("|", <<Ls, Script>>), Ls>>),
      compose("|", <<Ls, compose(",", <<Ls, Script>>)>>),
      compose("|", <<SystemFunctor(HandlerName, Some(<<WordLs>>)), Ls>>),
      compose("|", <<Ls, SystemFunctor(HandlerName, Some(<<WordLs>>))>>) }

InitHistory ==
    /\ contexts \in {(<<>> :> Context(WorkDir, (HandlerName :> handler), ScriptsDir)) :
                        handler \in {"history", "run"}}
    /\ script_files = {WordScript}
    /\ functor \in {<<f>> : f \in HistoryFunctors}
    /\ calls = [p \in Paths(functor[1]) |-> Idle]
    /\ finished = <<>>
    /\ parse_log = <<>>
    /\ source = <<>>
    /\ tokens = NotTokenized
    /\ run = [p \in Paths(functor[1]) |-> NoRun]
    /\ tmp_files = {}

SpecHistory == InitHistory /\ [][NextRun]_vars

(***************************************************************************)
(* Properties.                                                             *)
(***************************************************************************)
NodesOf(kind) == {p \in DOMAIN calls : Node(p).kind = kind}
Arity(p) == Len(Node(p).functors)
Returned(p) == calls[p].status = "returned"
Raised(p) == calls[p].status = "raised"
Failed(p) == Returned(p) /\ ~GetIsSuccess(calls[p].result.value)
Succeeded(p) == Returned(p) /\ GetIsSuccess(calls[p].result.value)
SucceededEmpty(p) == Succeeded(p) /\ GetOutputFiles(calls[p].result.value) = <<>>
Fatal(p) == Raised(p) /\ calls[p].result.exc = "FunctorExecutionError"
Before(a, b) ==
    \E m, n \in 1..Len(finished) : m < n /\ finished[m] = a /\ finished[n] = b
Contains(text, part) ==
    \E k \in 0..(Len(text) - Len(part)) : SubSeq(text, k + 1, k + Len(part)) = part

\* C1: once a child of a Sequential node has returned a payload whose
\* is_success is false, no later child is ever called, and the node's call
\* returns that child's payload unchanged.
C1_SequentialShortCircuit ==
    \A p \in NodesOf("Sequential") : \A i \in 1..Arity(p) :
        Failed(Child(p, i)) =>
            /\ \A j \in (i + 1)..Arity(p) : calls[Child(p, j)].status = "idle"
            /\ Done(p) => Returned(p) /\ calls[p].result = calls[Child(p, i)].result

C1_Witness ==
    \E p \in NodesOf("Sequential") :
        /\ Failed(Child(p, 1))
        /\ Truthy(GetErrorMessage(calls[Child(p, 1)].result.value))
        /\ calls[Child(p, 2)].status = "idle"
        /\ Returned(p)
        /\ calls[p].result = calls[Child(p, 1)].result

\* C2: the first child of a Sequential node is called with the node's own
\* input_files and the caller's extra_args; child i+1 is called only after
\* child i succeeded, with input_files equal to the output_files child i
\* returned and with empty extra_args.
C2_SequentialChaining ==
    \A p \in NodesOf("Sequential") :
        /\ calls[Child(p, 1)].status # "idle" =>
              calls[Child(p, 1)].payload =
                  InputPayload(INPUT_FIELDS, GetInputFiles(calls[p].normalized),
                               calls[p].payload.extra_args)
        /\ \A i \in 1..(Arity(p) - 1) :
              calls[Child(p, i + 1)].status # "idle" =>
                  /\ Succeeded(Child(p, i))
                  /\ calls[Child(p, i + 1)].payload =
                         InputPayload(INPUT_FIELDS,
                                      GetOutputFiles(calls[Child(p, i)].result.value),
                                      <<>>)

C2_Witness ==
    \E p \in NodesOf("Sequential") :
        /\ calls[p].payload.extra_args # <<>>
        /\ calls[Child(p, 1)].payload.extra_args = calls[p].payload.extra_args
        /\ Done(Child(p, 2))
        /\ calls[Child(p, 2)].payload.extra_args = <<>>
        /\ calls[Child(p, 2)].payload.input_files =
               GetOutputFiles(calls[Child(p, 1)].result.value)
        /\ calls[Child(p, 2)].payload.input_files # calls[Child(p, 1)].payload.input_files

\* C3: when every child of a Parallel node returned success with non-empty
\* output_files, the node returns success, no error message, and the
\* children's output_files concatenated in the order the children are
\* declared, whatever the order they ended in.
C3_ParallelAggregation ==
    \A p \in NodesOf("Parallel") :
        ( /\ Done(p)
          /\ \A i \in 1..Arity(p) :
                Succeeded(Child(p, i)) /\ ~SucceededEmpty(Child(p, i)) ) =>
            /\ Returned(p)
            /\ calls[p].result.value =
                   OutputPayload(
                       Flatten([i \in 1..Arity(p) |->
                                   GetOutputFiles(calls[Child(p, i)].result.value)]),
                       TRUE, None)

C3_Witness ==
    \E p \in NodesOf("Parallel") :
        /\ Succeeded(p)
        /\ \A i \in 1..Arity(p) : Succeeded(Child(p, i))
        /\ Before(Child(p, 2), Child(p, 1))
        /\ GetOutputFiles(calls[Child(p, 1)].result.value)
               # GetOutputFiles(calls[Child(p, 2)].result.value)
        /\ GetOutputFiles(calls[p].result.value) =
               GetOutputFiles(calls[Child(p, 1)].result.value)
               \o Flatten([i \in 1..(Arity(p) - 1) |->
                              GetOutputFiles(calls[Child(p, i + 1)].result.value)])

\* C4: when a child of a Parallel node returned is_success false and no child
\* returned success with empty output_files, the node returns is_success
\* false with output_files equal to the input_files it was called with.
C4_ParallelPartialFailure ==
    \A p \in NodesOf("Parallel") :
        ( /\ Done(p)
          /\ \E i \in 1..Arity(p) : Failed(Child(p, i))
          /\ \A i \in 1..Arity(p) : ~SucceededEmpty(Child(p, i)) ) =>
            /\ Failed(p)
            /\ GetOutputFiles(calls[p].result.value) = GetInputFiles(calls[p].normalized)

C4_Witness ==
    \E p \in NodesOf("Parallel") : \E i, j \in 1..Arity(p) :
        /\ Failed(Child(p, i))
        /\ Succeeded(Child(p, j))
        /\ GetOutputFiles(calls[Child(p, j)].result.value) # <<>>
        /\ Failed(p)
        /\ GetInputFiles(calls[p].normalized) # <<>>
        /\ GetOutputFiles(calls[p].result.value) = GetInputFiles(calls[p].normalized)

RootRunning ==
    IF functor = <<>> THEN FALSE
    ELSE Node(<<>>).kind = "Parallel" /\ calls[<<>>].status = "running"

RootJoined ==
    IF functor = <<>> THEN FALSE
    ELSE Done(<<>>) /\ \A i \in 1..Arity(<<>>) : Done(<<i>>)

\* C5: a Parallel node's call that submitted its children never ends before
\* every one of them has ended; once the children are submitted every one of
\* them ends, a failed or raising sibling notwithstanding, and then the
\* node's call ends.
C5_ParallelJoinAll ==
    /\ [](\A p \in NodesOf("Parallel") :
             Done(p) /\ calls[p].normalized # NoPayload =>
                 \A i \in 1..Arity(p) : Done(Child(p, i)))
    /\ RootRunning ~> RootJoined

C5_Witness ==
    \E p \in NodesOf("Parallel") : \E i, j \in 1..Arity(p) :
        /\ Done(p)
        /\ Failed(Child(p, i)) \/ Raised(Child(p, i))
        /\ Done(Child(p, j))
        /\ Before(Child(p, i), Child(p, j))

\* C6: no call of any functor returns a payload whose is_success is true and
\* whose output_files is empty.
C6_EmptyOutputIsFatal ==
    \A p \in DOMAIN calls : ~SucceededEmpty(p)

\* C7 as stated: when a child of a Sequential or Parallel node raised a
\* FunctorExecutionError, the node's call raises that same error.
C7_FatalNeverDowngraded ==
    \A kind \in {"Sequential", "Parallel"} : \A p \in NodesOf(kind) :
        \A i \in 1..Arity(p) :
            Fatal(Child(p, i)) /\ Done(p) =>
                /\ Raised(p)
                /\ \E j \in 1..Arity(p) : calls[p].result = calls[Child(p, j)].result

\* C7: a FunctorExecutionError raised by a child of a Sequential node is
\* raised unchanged by the node's call.  A Parallel node does not raise a
\* child's error: it returns is_success false, its own input_files and an
\* error_message that holds "<child name>: <error>", unless a child returned
\* success with empty output_files, and then it raises its own error for the
\* first such child.
C7_FatalInSequential ==
    /\ \A p \in NodesOf("Sequential") : \A i \in 1..Arity(p) :
          Fatal(Child(p, i)) /\ Done(p) =>
              Raised(p) /\ calls[p].result = calls[Child(p, i)].result
    /\ \A p \in NodesOf("Parallel") : \A i \in 1..Arity(p) :
          Fatal(Child(p, i)) /\ Done(p) =>
              LET empty == {j \in 1..Arity(p) : SucceededEmpty(Child(p, j))}
              IN IF empty # {}
                 THEN \E j \in empty :
                        /\ \A k \in empty : j <= k
                        /\ calls[p].result = EmptyOutputFiles(Node(Child(p, j)))
                 ELSE /\ Failed(p)
                      /\ GetOutputFiles(calls[p].result.value)
                             = GetInputFiles(calls[p].normalized)
                      /\ Contains(GetErrorMessage(calls[p].result.value),
                                  Node(Child(p, i)).name \o <<": ">>
                                      \o calls[Child(p, i)].result.message)

C7_Witness ==
    \E p \in NodesOf("Parallel") : \E i \in 1..Arity(p) :
        /\ Fatal(Child(p, i))
        /\ Failed(p)
        /\ Contains(GetErrorMessage(calls[p].result.value),
                    calls[Child(p, i)].result.message)

\* C8: while the call of a Parallel node is under way, the context it was
\* called on keeps its path, scripts_path and system_funcs, and its history
\* changes only once: the node's own entry is appended when the call returns.
C8_ParallelStep(p) ==
    LET C == contexts[ProcessRoot(p)]
        D == contexts'[ProcessRoot(p)]
    IN calls[p].status \in {"called", "running"} =>
        /\ D.path = C.path
        /\ D.scripts_path = C.scripts_path
        /\ D.system_funcs = C.system_funcs
        /\ \/ D.history = C.history
           \/ /\ calls'[p].status = "returned"
              /\ D.history =
                     Append(C.history,
                            serialize_history(Node(p), calls'[p].normalized))

C8_ParentHistoryIsolation ==
    [][\A p \in NodesOf("Parallel") : C8_ParallelStep(p)]_vars

C8_Witness ==
    /\ functor # <<>>
    /\ Node(<<>>).kind = "Parallel"
    /\ Returned(<<>>)
    /\ \A i \in 1..Arity(<<>>) :
          /\ Returned(<<i>>)
          /\ contexts[<<i>>].history # <<>>
    /\ contexts[<<>>].history
           = <<serialize_history(Node(<<>>), calls[<<>>].normalized)>>

\* C9: the parse of ":name args" succeeds whether or not a handler is
\* registered under the name; a call while none is registered raises
\* FunctorExecutionError; a call while one is registered, were it registered
\* after the parse, ends as that handler ends.
C9_LateBinding ==
    /\ parse_log # <<>> => parse_log[1].error = "none"
    /\ \A p \in NodesOf("System") :
          Done(p) /\ ~normalize_input_raises(Node(p), calls[p].payload) =>
              LET context == contexts[ProcessRoot(p)]
              IN IF Node(p).name \notin DOMAIN context.system_funcs
                 THEN calls[p].result =
                          Raise("FunctorExecutionError",
                                <<"System functor '">> \o Node(p).name
                                \o <<"' is not registered in the context.">>)
                 ELSE calls[p].result \in
                          {o.result : o \in handler_call(
                               context.system_funcs[Node(p).name],
                               calls[p].normalized, context, script_files)}

C9_Witness ==
    \E p \in NodesOf("System") :
        /\ Returned(p)
        /\ Node(p).name \in DOMAIN contexts[<<>>].system_funcs
        /\ Node(p).name \notin parse_log[1].handlers

\* C10: the call of a System functor whose handler is registered ends with
\* exactly what the handler returned, and leaves the context's history as the
\* handler left it: the call adds no entry for the System functor.
C10_SystemStep(p) ==
    LET context == contexts[ProcessRoot(p)]
    IN ( /\ calls[p].status = "called"
         /\ calls'[p].status \in {"returned", "raised"}
         /\ ~normalize_input_raises(Node(p), calls[p].payload)
         /\ Node(p).name \in DOMAIN context.system_funcs ) =>
        /\ \E o \in handler_call(context.system_funcs[Node(p).name],
                                normalize_input(Node(p), context, calls[p].payload),
                                context, script_files) :
              /\ calls'[p].result = o.result
              /\ contexts'[ProcessRoot(p)] = o.context
        /\ context.system_funcs[Node(p).name] \in {"history", "set"} =>
              contexts'[ProcessRoot(p)].history = context.history

C10_SystemPassThrough ==
    [][\A p \in NodesOf("System") : C10_SystemStep(p)]_vars

C10_Witness ==
    \E p \in NodesOf("System") :
        /\ Succeeded(p)
        /\ Node(p).name \in DOMAIN contexts[ProcessRoot(p)].system_funcs
        /\ GetOutputFiles(calls[p].result.value) # <<>>
        /\ \A k \in 1..Len(contexts[ProcessRoot(p)].history) :
              contexts[ProcessRoot(p)].history[k]
                  # serialize_history(Node(p), calls[p].normalized)

\* The segments of a token list between the separators `sep` that stand
\* outside every pair of parentheses.
RECURSIVE SplitTop(_, _, _, _, _)
SplitTop(toks, sep, depth, current, parts) ==
    IF toks = <<>> THEN Append(parts, current)
    ELSE IF Head(toks) = sep /\ depth = 0
    THEN SplitTop(Tail(toks), sep, 0, <<>>, Append(parts, current))
    ELSE SplitTop(Tail(toks), sep,
                  IF Head(toks) = Open THEN depth + 1
                  ELSE IF Head(toks) = Close /\ depth > 0 THEN depth - 1
                  ELSE depth,
                  Append(current, Head(toks)), parts)

\* What a well-formed token list means when "," binds looser than "|" and
\* parentheses group: composite nodes with their parts from left to right.
RECURSIVE Grouping(_)
Grouping(toks) ==
    LET by_comma == SplitTop(toks, Comma, 0, <<>>, <<>>)
        by_pipe == SplitTop(toks, Pipe, 0, <<>>, <<>>)
    IN IF Len(by_comma) > 1
       THEN [kind |-> "Parallel", words |-> <<>>,
             parts |-> [i \in 1..Len(by_comma) |-> Grouping(by_comma[i])]]
       ELSE IF Len(by_pipe) > 1
       THEN [kind |-> "Sequential", words |-> <<>>,
             parts |-> [i \in 1..Len(by_pipe) |-> Grouping(by_pipe[i])]]
       ELSE IF Head(toks) = Open
       THEN Grouping(SubSeq(toks, 2, Len(toks) - 1))
       ELSE [kind |-> "command", words |-> toks, parts |-> <<>>]

\* The same view of a functor tree.
RECURSIVE Shape(_)
Shape(f) ==
    IF f.kind \in {"Sequential", "Parallel"}
    THEN [kind |-> f.kind, words |-> <<>>,
          parts |-> [i \in 1..Len(f.functors) |-> Shape(f.functors[i])]]
    ELSE [kind |-> "command",
          words |-> <<f.name>> \o (IF f.default_extra_args = NoneOpt THEN <<>>
                                   ELSE f.default_extra_args[1]),
          parts |-> <<>>]

Accepted == parse_log # <<>> /\ parse_log[1].error = "none"
Leaf(word) == BuiltinFunctor(word, NoneOpt)

\* C11: every token list parse accepts yields the tree that "," binding
\* looser than "|" and parentheses grouping give it, the parts of every node
\* in source order; 'a | b, c | d' yields Parallel[Sequential[a,b],
\* Sequential[c,d]] and '(a, b) | c' yields Sequential[Parallel[a,b], c].
C11_GrammarPrecedence ==
    Accepted =>
        /\ Shape(functor[1]) = Grouping(tokens.tokens)
        /\ tokens.tokens = PrecedenceExample =>
              functor[1] = ParallelFunctor(
                  <<"parallel(", "sequential(", "a", " | ", "b", ")", ", ",
                    "sequential(", "c", " | ", "d", ")", ")">>,
                  <<SequentialFunctor(<<"sequential(", "a", " | ", "b", ")">>,
                                      <<Leaf(<<"a">>), Leaf(<<"b">>)>>),
                    SequentialFunctor(<<"sequential(", "c", " | ", "d", ")">>,
                                      <<Leaf(<<"c">>), Leaf(<<"d">>)>>)>>)
        /\ tokens.tokens = GroupingExample =>
              functor[1] = SequentialFunctor(
                  <<"sequential(", "parallel(", "a", ", ", "b", ")", " | ", "c", ")">>,
                  <<ParallelFunctor(<<"parallel(", "a", ", ", "b", ")">>,
                                    <<Leaf(<<"a">>), Leaf(<<"b">>)>>),
                    Leaf(<<"c">>)>>)

C11_Witness ==
    /\ Accepted
    /\ tokens.tokens = PrecedenceExample
    /\ functor[1].kind = "Parallel"
    /\ functor[1].functors[1].kind = "Sequential"
    /\ functor[1].functors[2].functors[1].name = <<"c">>

\* C12: in every tree parse returns, every Sequential and every Parallel node
\* has at least two children, and a command with no "|" and no "," parses to
\* the leaf functor itself, parentheses around it or not.
C12_SingletonCollapse ==
    Accepted =>
        /\ \A p \in DOMAIN calls :
              Node(p).kind \in {"Sequential", "Parallel"} => Arity(p) >= 2
        /\ (\A i \in 1..Len(tokens.tokens) : tokens.tokens[i] \notin {Pipe, Comma}) =>
              functor[1].kind \notin {"Sequential", "Parallel"}

C12_Witness ==
    /\ Accepted
    /\ tokens.tokens = <<Open, Open, <<"a">>, Close, Close>>
    /\ functor[1] = Leaf(<<"a">>)

\* A quoted span's text: no unescaped closing quote, no escape left pending.
RECURSIVE SpanText(_, _)
SpanText(text, quote) ==
    IF text = <<>> THEN TRUE
    ELSE IF Head(text) = "\\" THEN Len(text) >= 2 /\ SpanText(Tail(Tail(text)), quote)
    ELSE Head(text) # quote /\ SpanText(Tail(text), quote)

\* The span's text with every backslash dropped and the character after it kept.
RECURSIVE Unescaped(_)
Unescaped(text) ==
    IF text = <<>> THEN <<>>
    ELSE IF Head(text) = "\\" THEN <<text[2]>> \o Unescaped(Tail(Tail(text)))
    ELSE <<Head(text)>> \o Unescaped(Tail(text))

\* The text ends inside a quoted span (an escape may be pending).
RECURSIVE EndsInQuote(_, _, _)
EndsInQuote(text, quote, escaped) ==
    IF text = <<>> THEN quote # NoQuote
    ELSE IF quote = NoQuote
    THEN EndsInQuote(Tail(text), IF Head(text) \in Quotes THEN Head(text) ELSE NoQuote,
                     FALSE)
    ELSE IF escaped THEN EndsInQuote(Tail(text), quote, FALSE)
    ELSE IF Head(text) = "\\" THEN EndsInQuote(Tail(text), quote, TRUE)
    ELSE IF Head(text) = quote THEN EndsInQuote(Tail(text), NoQuote, FALSE)
    ELSE EndsInQuote(Tail(text), quote, FALSE)

\* C13: a text that ends inside a quoted span (a pending escape included) is
\* a ParseError with no tokens; a quoted span after a complete text adds
\* exactly one token, its text with each backslash dropped and the next
\* character kept, even when that text is empty.
C13_TokenizerQuoting ==
    tokens.ran =>
        /\ EndsInQuote(source, NoQuote, FALSE) =>
              tokens = TokenizeError("Unterminated quote in command.")
        /\ ~EndsInQuote(source, NoQuote, FALSE) => tokens.error = "none"
        /\ \A i \in 1..Len(source) : \A j \in (i + 1)..Len(source) :
              LET before == SubSeq(source, 1, i - 1)
                  span == SubSeq(source, i + 1, j - 1)
                  after == SubSeq(source, j + 1, Len(source))
              IN ( /\ source[i] \in Quotes
                   /\ source[j] = source[i]
                   /\ SpanText(span, source[i])
                   /\ tokenize(before).error = "none"
                   /\ tokenize(after).error = "none" ) =>
                   tokens = Tokenized(tokenize(before).tokens
                                      \o <<Unescaped(span)>>
                                      \o tokenize(after).tokens)

C13_Witness ==
    /\ tokens.ran
    /\ source = QuotedExample
    /\ tokens = Tokenized(<<<<"a">>, <<"b", " ", "c">>, <<"d", "\"", "e">>>>)

\* The command words of a token list, in order: the tokens that begin a command.
HeadWords(toks) ==
    LET heads == {i \in 1..Len(toks) :
                     /\ toks[i] \notin {Pipe, Comma, Open, Close}
                     /\ (i = 1 \/ toks[i - 1] \in {Pipe, Comma, Open})}
        RECURSIVE InOrder(_)
        InOrder(i) == IF i > Len(toks) THEN <<>>
                      ELSE IF i \in heads THEN <<toks[i]>> \o InOrder(i + 1)
                      ELSE InOrder(i + 1)
    IN InOrder(1)

\* The leaves of a functor tree, left to right.
RECURSIVE LeavesOf(_)
LeavesOf(f) ==
    IF f.kind \in {"Sequential", "Parallel"}
    THEN Flatten([i \in 1..Len(f.functors) |-> LeavesOf(f.functors[i])])
    ELSE <<f>>

\* C14: the kind of every leaf is decided by the parse that built it, from
\* the scripts directory as it is at that parse: a word with the ":" prefix
\* is a System functor whether or not a script file of that name exists; any
\* other word is a UserDefined functor exactly when <scripts_path>/<word>.py
\* is a file at that moment and a Builtin functor otherwise, so the same line
\* parsed again after the file is added or removed yields the other kind.
C14_ResolvedAtEachParse ==
    \A n \in 1..Len(parse_log) :
        LET entry == parse_log[n]
        IN IF entry.error # "none" THEN TRUE
           ELSE LET words == HeadWords(entry.tokens)
                    leaves == LeavesOf(entry.functor[1])
                IN /\ Len(leaves) = Len(words)
                   /\ \A i \in 1..Len(words) :
                         leaves[i].kind =
                             IF Head(words[i]) = ":" THEN "System"
                             ELSE IF words[i] \in entry.files THEN "UserDefined"
                             ELSE "Builtin"

C14_Witness ==
    /\ Len(parse_log) = 2
    /\ parse_log[1].tokens = <<WordScript>>
    /\ parse_log[2].tokens = <<WordScript>>
    /\ parse_log[2].functor[1].kind = "UserDefined"
    /\ parse_log[1].functor[1].kind = "Builtin"
    /\ WordSystem \in script_files

\* execute of node p was entered: its payload passed _normalize_input.
Executed(p) ==
    /\ calls[p].status \in {"running", "returned", "raised"}
    /\ ~normalize_input_raises(Node(p), calls[p].payload)

Supplied(payload) ==
    "input_files" \in payload.keys /\ payload.input_files # <<>>

\* C15: for every functor variant, the payload given to execute holds the
\* caller's input_files when the caller supplied a non-empty list; when the
\* caller supplied none (no payload, no input_files key, an empty list) it
\* holds the functor's default input files if set, and otherwise the context's
\* current path as its only element.
C15_InputFilesFallback ==
    \A p \in DOMAIN calls :
        Executed(p) =>
            LET given == calls[p].payload
                files == calls[p].normalized.input_files
                default == Node(p).default_input_files
            IN /\ "input_files" \in calls[p].normalized.keys
               /\ Supplied(given) => files = given.input_files
               /\ (~Supplied(given) /\ default # NoneOpt) => files = default[1]
               /\ (~Supplied(given) /\ default = NoneOpt) =>
                     files = <<contexts[ProcessRoot(p)].path>>

C15_Witness ==
    /\ functor[1] = ScriptWithFiles
    /\ Executed(<<>>)
    /\ calls[<<>>].payload = InputPayload({"extra_args"}, <<>>, <<<<"-", "v">>>>)
    /\ calls[<<>>].normalized.input_files = <<<<"d">>>>

\* The script of leaf p exited 0 and left a JSON mapping in its buffer, which
\* execute returns as it is.
WroteMapping(p) ==
    /\ Node(p).kind = "UserDefined"
    /\ Done(p)
    /\ run[p].spawn = "ok"
    /\ run[p].returncode = 0
    /\ run[p].buffer.state = "json"
    /\ run[p].buffer.payload.mapping

\* C16: an output payload without the error_message key is accepted only
\* when its is_success is true; one with is_success false and no
\* error_message key is rejected with a fatal error, as is one that lacks
\* output_files or is_success or carries an unknown key.
C16_ErrorMessageRequired ==
    \A p \in DOMAIN calls :
        WroteMapping(p) =>
            LET output == run[p].buffer.payload
                rejected ==
                    \/ "error_message" \notin output.keys /\ ~GetIsSuccess(output)
                    \/ ~({"output_files", "is_success"} \subseteq output.keys)
                    \/ ~(output.keys \subseteq OUTPUT_FIELDS)
            IN IF rejected THEN Fatal(p)
               ELSE Returned(p) /\ calls[p].result.value = output

Message(p) == GetErrorMessage(calls[p].result.value)
Explained(p) == Truthy(Message(p))

\* C17 as claimed: every payload with is_success false that a Builtin,
\* UserDefined, Sequential or Parallel call returns carries an error_message
\* that is neither null nor empty, a Builtin whose process exits non-zero with
\* empty standard error included.
C17_FailureAlwaysExplained ==
    \A p \in DOMAIN calls :
        (Node(p).kind # "System" /\ Failed(p)) => Explained(p)

\* C17: a failure payload of a Parallel node, of a spawn that found no
\* executable and of a missing, empty or invalid buffer carries a non-empty
\* error_message.  A Builtin whose process exits non-zero carries its trimmed
\* standard error, and null when that is blank; a UserDefined whose script
\* left a failure payload returns it as it is, with or without a message; a
\* Sequential node returns the failure payload of its child unchanged.
C17_FailureMessage ==
    \A p \in DOMAIN calls :
        Failed(p) =>
            CASE Node(p).kind = "Parallel" -> Explained(p)
              [] Node(p).kind = "Sequential" ->
                    calls[p].result = calls[Child(p, calls[p].index)].result
              [] Node(p).kind = "Builtin" ->
                    IF run[p].spawn = "FileNotFoundError"
                    THEN Message(p) = run[p].error /\ Explained(p)
                    ELSE /\ run[p].spawn = "ok"
                         /\ run[p].returncode # 0
                         /\ Message(p) = IF strip(run[p].stderr) # <<>>
                                         THEN strip(run[p].stderr) ELSE None
              [] Node(p).kind = "UserDefined" ->
                    IF run[p].spawn = "FileNotFoundError"
                    THEN Message(p) = run[p].error /\ Explained(p)
                    ELSE /\ run[p].spawn = "ok"
                         /\ IF run[p].buffer.state = "json"
                            THEN calls[p].result.value = run[p].buffer.payload
                            ELSE /\ run[p].buffer.state \in {"missing", "empty", "invalid"}
                                 /\ Explained(p)
              [] OTHER -> TRUE

C17_Witness ==
    /\ functor[1] = compose("|", <<Ls, Script>>)
    /\ Failed(<<>>)
    /\ Failed(<<1>>)
    /\ run[<<1>>] = Completed(1, <<>>, <<" ", "\n">>)
    /\ Message(<<>>) = None

\* The script of leaf p ran to its end and left a JSON mapping in its buffer.
ParsedBuffer(p) ==
    /\ Node(p).kind = "UserDefined"
    /\ Done(p)
    /\ run[p].spawn = "ok"
    /\ run[p].buffer.state = "json"
    /\ run[p].buffer.payload.mapping

\* The call of p ended as it does when execute returns the buffer as it is.
Verbatim(p) ==
    IF validate_output_raises(run[p].buffer.payload) THEN Fatal(p)
    ELSE Returned(p) /\ calls[p].result.value = run[p].buffer.payload

\* C18 as claimed: after a parsed buffer, the call returns a synthesised
\* failure exactly when the process exited non-zero and the buffer did not
\* itself report success; otherwise (non-zero exit with a buffer reporting
\* success, zero exit with any buffer) it returns the buffer as it is.
C18_FailureUnlessBufferSucceeded ==
    \A p \in DOMAIN calls :
        ParsedBuffer(p) =>
            IF run[p].returncode # 0 /\ ~GetIsSuccess(run[p].buffer.payload)
            THEN Failed(p) /\ calls[p].result.value # run[p].buffer.payload
            ELSE Verbatim(p)

\* C18: after a parsed buffer, the call leaves the buffer aside exactly when
\* the process exited non-zero and the buffer reports success or has no
\* is_success key, and then it ends with an AttributeError; when the process
\* exited zero, or exited non-zero with a buffer whose is_success is false,
\* the buffer is returned as it is.
C18_ExitOverridesSuccess ==
    \A p \in DOMAIN calls :
        ParsedBuffer(p) =>
            IF /\ run[p].returncode # 0
               /\ \/ "is_success" \notin run[p].buffer.payload.keys
                  \/ run[p].buffer.payload.is_success
            THEN Raised(p) /\ calls[p].result.exc = "AttributeError"
            ELSE Verbatim(p)

C18_Witness ==
    /\ functor[1] = Script
    /\ ParsedBuffer(<<>>)
    /\ run[<<>>].returncode = 1
    /\ run[<<>>].buffer.payload = OutputPayload(<<<<"u">>>>, FALSE, <<"bad">>)
    /\ Failed(<<>>)
    /\ Message(<<>>) = <<"bad">>

\* C19: whenever execute takes the branch for a non-zero exit that overrides
\* the buffer, the call returns a failure payload whose error_message is the
\* generic message, the streams of the child not being captured; it never
\* raises.
C19_GenericFailureMessage ==
    \A p \in DOMAIN calls :
        (ParsedBuffer(p) /\ exit_overrides_buffer(run[p], run[p].buffer.payload)) =>
            /\ Failed(p)
            /\ Message(p) = <<"Script execution failed.">>

\* C20: once the call of a UserDefined functor whose execute was entered has
\* returned or raised, the scratch buffer of that invocation does not exist.
C20_BufferRemoved ==
    \A p \in DOMAIN calls :
        (Node(p).kind = "UserDefined" /\ Done(p) /\ run[p].spawn # "none") =>
            p \notin tmp_files

\* SequentialFunctor.execute from child i on, as a function of what the child
\* processes do (runs[<<i>>] for child i): the payloads the children are
\* called with, and what execute returns or raises.
RECURSIVE sequential_stages(_, _, _, _, _, _)
sequential_stages(self, i, context, current_payload, runs, invocations) ==
    LET o == call_with(self.functors[i], context, current_payload, runs[<<i>>])
        after == sequential_after(self, i, current_payload, o.result)
    IN IF after.do = "end"
       THEN [invocations |-> Append(invocations, current_payload),
             output |-> after.output]
       ELSE sequential_stages(self, i + 1, o.context, after.payload, runs,
                              Append(invocations, current_payload))

\* SequentialFunctor(functors)(context, payload)
sequential_call(self, context, payload, runs) ==
    IF normalize_input_raises(self, payload)
    THEN [invocations |-> <<>>, output |-> UnsupportedFields(self)]
    ELSE LET normalized == normalize_input(self, context, payload)
             ran == sequential_stages(self, 1, context,
                        InputPayload(INPUT_FIELDS, GetInputFiles(normalized),
                                     GetExtraArgs(normalized)),
                        runs, <<>>)
         IN [invocations |-> ran.invocations,
             output |-> finish_call(self, context, normalized, ran.output).result]

\* The payloads pipe_process has called its stages with, in order.
PipeInvocations == [i \in 1..calls[<<>>].index |-> calls[<<i>>].payload]

\* The two results are the same, the failed_at annotation aside.
SameResult(sequential, pipeline) ==
    /\ sequential.exc = pipeline.exc
    /\ sequential.message = pipeline.message
    /\ sequential.value.keys = pipeline.value.keys \ {"failed_at"}
    /\ sequential.value.output_files = pipeline.value.output_files
    /\ sequential.value.is_success = pipeline.value.is_success
    /\ sequential.value.error_message = pipeline.value.error_message

PipeEnded ==
    /\ Node(<<>>).kind = "Pipeline"
    /\ Node(<<>>).functors # <<>>
    /\ Done(<<>>)
    /\ calls[<<>>].payload.keys \subseteq INPUT_FIELDS

AsSequential ==
    LET self == SequentialFunctor(<<"seq">>, Node(<<>>).functors)
        context == Context(WorkDir, EmptyDict, ScriptsDir)
        first == normalize_input(self, context, calls[<<>>].payload)
    IN IF PipeInvocations[1] # first THEN FALSE
       ELSE LET sequential == sequential_call(self, context, calls[<<>>].payload, run)
            IN /\ sequential.invocations = PipeInvocations
               /\ SameResult(sequential.output, calls[<<>>].result)

\* C21: for every non-empty functor list and every starting payload (absent,
\* without input_files, with an empty or a non-empty input_files list),
\* pipe_process calls the same functors in the same order with the same
\* payloads as SequentialFunctor over that list called with the same context
\* and payload, and returns the same result, the failure annotation aside.
C21_PipelineEqualsSequential == PipeEnded => AsSequential

\* Stage i of the pipeline is the first to have failed.
FirstFailure(i) ==
    /\ i \in 1..Len(Node(<<>>).functors)
    /\ Failed(<<i>>)
    /\ \A j \in 1..(i - 1) : Returned(<<j>>) /\ ~Failed(<<j>>)

\* C22: pipe_process given no functor raises the caller-contract error
\* (ValueError) whatever the payload, with the context as it was and nothing
\* invoked; when stage i is the first to fail, pipe_process returns stage i's
\* payload with failed_at added and set to stage i's name, the payload the
\* stage returned is as the stage returned it, and no later stage is called.
C22_PipelineFailure ==
    Node(<<>>).kind = "Pipeline" =>
        /\ (Node(<<>>).functors = <<>> /\ Done(<<>>)) =>
              /\ calls[<<>>].result =
                     Raise("ValueError",
                           <<"pipe_process requires at least one functor.">>)
              /\ contexts[<<>>] = Context(WorkDir, EmptyDict, ScriptsDir)
              /\ \A p \in DOMAIN run : run[p] = NoRun
        /\ \A i \in 1..Len(Node(<<>>).functors) :
              (FirstFailure(i) /\ Done(<<>>)) =>
                  /\ Returned(<<>>)
                  /\ calls[<<>>].result.value.failed_at = Node(<<i>>).name
                  /\ calls[<<>>].result.value =
                         failure_output(calls[<<i>>].result.value, Node(<<i>>).name)
                  /\ "failed_at" \notin calls[<<i>>].result.value.keys
                  /\ calls[<<i>>].result =
                         call_with(Node(<<i>>), contexts[<<>>], calls[<<i>>].payload,
                                   run[<<i>>]).result
                  /\ \A j \in (i + 1)..Len(Node(<<>>).functors) :
                         calls[<<j>>] = Idle /\ run[<<j>>] = NoRun

\* Reached: a pipeline of two stages has returned after its first stage failed.
C22_Witness ==
    /\ Node(<<>>).kind = "Pipeline"
    /\ Len(Node(<<>>).functors) = 2
    /\ FirstFailure(1)
    /\ Returned(<<>>)

\* The calls of non-System functors in the process of `root` that return in
\* this step (pipe_process is a driver, not a functor).
ReturningIn(root) ==
    {p \in DOMAIN calls :
        /\ ProcessRoot(p) = root
        /\ ~Done(p)
        /\ calls'[p].status = "returned"
        /\ Node(p).kind \notin {"System", "Pipeline"}}

\* A System call of the process of `root` ends in this step; its handler may
\* itself have called functors with the context.
SystemEndsIn(root) ==
    \E p \in DOMAIN calls :
        /\ ProcessRoot(p) = root
        /\ Node(p).kind = "System"
        /\ ~Done(p)
        /\ calls'[p].status \in {"returned", "raised"}

Extends(old, new) ==
    IF Len(old) > Len(new) THEN FALSE ELSE SubSeq(new, 1, Len(old)) = old

HistoryStep ==
    \A root \in DOMAIN contexts \cap DOMAIN contexts' :
        IF ReturningIn(root) # {}
        THEN \E p \in ReturningIn(root) :
                /\ ReturningIn(root) = {p}
                /\ contexts'[root].history =
                       Append(contexts[root].history,
                              serialize_history(Node(p), calls'[p].normalized))
        ELSE IF SystemEndsIn(root)
        THEN Extends(contexts[root].history, contexts'[root].history)
        ELSE contexts'[root].history = contexts[root].history

\* C23: a call of a non-System functor that returns an output payload,
\* successful or not, appends exactly one entry (the functor and its
\* normalised input) to the history of the context it was called with; a step
\* in which no such call returns (a call raising in normalise, execute or
\* validate) leaves every history as it was, and a System call only ever
\* extends it, so entries are never removed, reordered or changed.
C23_HistoryRecording == [][HistoryStep]_vars

\* Reached: in `ls | f` the first child has returned and been recorded, the
\* second has raised, and the history holds the one entry.
C23_Witness ==
    /\ Node(<<>>).kind = "Sequential"
    /\ Returned(<<1>>)
    /\ Raised(<<2>>)
    /\ Raised(<<>>)
    /\ Len(contexts[<<>>].history) = 1

\* The child process of leaf p could not be started.
SpawnFailed(p) ==
    /\ Node(p).kind \in {"Builtin", "UserDefined"}
    /\ Done(p)
    /\ run[p].spawn \notin {"none", "ok"}

\* The call of p returned the failure for a child that did not start.
SpawnFailureReturned(p) ==
    /\ Failed(p)
    /\ GetOutputFiles(calls[p].result.value) = GetInputFiles(calls[p].normalized)
    /\ Message(p) = run[p].error

\* C24: whenever the child process of a Builtin or UserDefined functor fails
\* to start (executable or interpreter not found, not executable, working
\* directory invalid), the call raises nothing and returns a payload with
\* is_success false, the original input_files as output_files and the spawn
\* error as error_message.
C24_SpawnFailureReturned ==
    \A p \in DOMAIN calls : SpawnFailed(p) => SpawnFailureReturned(p)

\* Child c of a Parallel node failed or raised, and the text it contributes.
Unsuccessful(c) == Raised(c) \/ Failed(c)
ChildError(c) ==
    Node(c).name \o <<": ">> \o
        (IF Raised(c) THEN calls[c].result.message
         ELSE IF Message(c) \in {None, <<>>} THEN <<"Unknown error.">>
         ELSE Message(c))

RECURSIVE ErrorsOf(_)
ErrorsOf(children) ==
    IF children = <<>> THEN <<>>
    ELSE (IF Unsuccessful(Head(children)) THEN <<ChildError(Head(children))>>
          ELSE <<>>) \o ErrorsOf(Tail(children))

\* C25: when children of a Parallel node failed or raised and the node
\* returns, its error_message is the texts "<child name>: <message>" of
\* exactly those children, joined with "; " in the order of declaration
\* whatever the order they ended in; a failing child whose error_message is
\* null or empty contributes "<child name>: Unknown error.".
C25_ParallelErrorOrder ==
    \A p \in DOMAIN calls :
        (/\ Node(p).kind = "Parallel"
         /\ Returned(p)
         /\ \E i \in 1..Len(Node(p).functors) : Unsuccessful(Child(p, i))) =>
            /\ Failed(p)
            /\ Message(p) = Join(<<"; ">>, ErrorsOf(Children(p)))

\* Reached: the second child ended first, the first child failed without a
\* message, the second raised, and the node has returned.
C25_Witness ==
    /\ Node(<<>>).kind = "Parallel"
    /\ Returned(<<>>)
    /\ Before(<<2>>, <<1>>)
    /\ Failed(<<1>>) /\ ~Explained(<<1>>)
    /\ Raised(<<2>>)

\* C26: every child of a Parallel node that has been handed its task holds a
\* payload whose input_files and extra_args are those of the node's own
\* normalised input, whatever its position, the order the workers start in
\* and whatever its siblings have returned by then.
C26_ParallelFanOut ==
    \A p \in DOMAIN calls :
        (Node(p).kind = "Parallel" /\ Executed(p)) =>
            \A i \in 1..Len(Node(p).functors) :
                /\ calls[Child(p, i)].status # "idle"
                /\ calls[Child(p, i)].payload.keys = INPUT_FIELDS
                /\ GetInputFiles(calls[Child(p, i)].payload) =
                       GetInputFiles(calls[p].normalized)
                /\ GetExtraArgs(calls[Child(p, i)].payload) =
                       GetExtraArgs(calls[p].normalized)

\* Reached: the second child ended with other output files before the first
\* child was started, and the node's input carries extra arguments.
C26_Witness ==
    /\ Node(<<>>).kind = "Parallel"
    /\ GetExtraArgs(calls[<<>>].normalized) # <<>>
    /\ Returned(<<2>>)
    /\ GetOutputFiles(calls[<<2>>].result.value) # GetInputFiles(calls[<<>>].normalized)
    /\ calls[<<1>>].status = "submitted"

\* The worker of child c has been started; the context of the node's caller.
InWorker(c) ==
    /\ c # <<>>
    /\ Node(Parent(c)).kind = "Parallel"
    /\ c \in DOMAIN contexts
ParentContext(c) == contexts[ProcessRoot(Parent(c))]

\* The handlers of a registry that pickle transfers.
Transferable(system_funcs) ==
    {n \in DOMAIN system_funcs : system_funcs[n] \in {"history", "run"}}

\* C27: the context a child of a Parallel node runs with has the parent's
\* path and scripts_path and, as its registry, exactly the parent's handlers
\* that can be transferred; when the child is called its history is empty.
\* A System child whose handler the parent has but which was dropped ends
\* with the "not registered" error.
C27_WorkerContext ==
    \A c \in DOMAIN calls :
        InWorker(c) =>
            /\ contexts[c].path = ParentContext(c).path
            /\ contexts[c].scripts_path = ParentContext(c).scripts_path
            /\ DOMAIN contexts[c].system_funcs =
                   Transferable(ParentContext(c).system_funcs)
            /\ \A n \in DOMAIN contexts[c].system_funcs :
                   contexts[c].system_funcs[n] = ParentContext(c).system_funcs[n]
            /\ calls[c].status = "called" => contexts[c].history = <<>>
            /\ (/\ Node(c).kind = "System"
                /\ Done(c)
                /\ ~normalize_input_raises(Node(c), calls[c].payload)
                /\ Node(c).name \in DOMAIN ParentContext(c).system_funcs
                /\ Node(c).name \notin Transferable(ParentContext(c).system_funcs)) =>
                   /\ Fatal(c)
                   /\ Contains(calls[c].result.message,
                               <<"' is not registered in the context.">>)

\* Reached: the parent holds a handler that is dropped and one that is kept;
\* the System child naming the dropped one has raised in its worker, the
\* sibling naming the kept one has returned.
C27_Witness ==
    /\ Node(<<>>).kind = "Parallel"
    /\ DOMAIN contexts[<<>>].system_funcs = {HandlerName, OtherName}
    /\ <<1>> \in DOMAIN contexts /\ <<2>> \in DOMAIN contexts
    /\ DOMAIN contexts[<<1>>].system_funcs = {HandlerName}
    /\ Node(<<1>>).name = OtherName /\ Fatal(<<1>>)
    /\ Node(<<2>>).name = HandlerName /\ Returned(<<2>>)

\* The arguments of the parsed user command, the length of their longest
\* prefix of words that do not start with "-", and the value of an optional
\* default.
UserArgs == Tail(tokens.tokens)
PrefixLen(args) ==
    CHOOSE k \in 0..Len(args) :
        /\ \A i \in 1..k : ~startswith(args[i], "-")
        /\ k = Len(args) \/ startswith(args[k + 1], "-")
Default(opt) == IF opt = NoneOpt THEN <<>> ELSE opt[1]

\* C28: for every argument list of a UserDefined command the default
\* input_files is the longest prefix of words not starting with "-", the
\* default extra_args is the rest, from the first word starting with "-" on
\* whatever the later words look like, the two concatenated are the argument
\* list, and the "extra arguments must start with '-'" ParseError is raised
\* exactly when the non-empty extra_args begins with another word.
C28_UserArgumentSplit ==
    (parse_log # <<>> /\ tokens.ran /\ tokens.tokens # <<>>
        /\ Head(tokens.tokens) = WordScript) =>
        LET k == PrefixLen(UserArgs)
            rest == SubSeq(UserArgs, k + 1, Len(UserArgs))
        IN /\ (parse_log[1].error = "User command extra arguments must start with '-'.")
                  <=> (rest # <<>> /\ ~startswith(rest[1], "-"))
           /\ parse_log[1].error = "none" =>
                  /\ functor[1].kind = "UserDefined"
                  /\ Default(functor[1].default_input_files) = SubSeq(UserArgs, 1, k)
                  /\ Default(functor[1].default_extra_args) = rest
                  /\ Default(functor[1].default_input_files)
                         \o Default(functor[1].default_extra_args) = UserArgs
           /\ parse_log[1].error \in
                  {"none", "User command extra arguments must start with '-'."}

\* Reached: "f a -v b" is parsed, and the word after the flag is an extra
\* argument.
C28_Witness ==
    /\ parse_log # <<>>
    /\ tokens.tokens = <<WordScript, <<"a">>, <<"-", "v">>, <<"b", "-">>>>
    /\ functor # <<>>
    /\ functor[1].default_input_files = Some(<<<<"a">>>>)
    /\ functor[1].default_extra_args = Some(<<<<"-", "v">>, <<"b", "-">>>>)

\* The child process of the Builtin p was started and has ended.
Spawned(p) ==
    /\ Node(p).kind = "Builtin"
    /\ Done(p)
    /\ run[p].spawn = "ok"

\* The lines of `text` that are not blank, each trimmed.
NotBlank(line) == strip(line) # <<>>
TrimmedLines(text) ==
    LET kept == SelectSeq(splitlines(text, <<>>, <<>>), NotBlank)
    IN [i \in 1..Len(kept) |-> strip(kept[i])]

\* C29: the payload returned by the call of a Builtin whose child process was
\* started has is_success true iff the exit status is zero; on success its
\* output_files is the non-blank trimmed lines of standard output when there
\* is one and the input_files of the call otherwise; on failure its
\* error_message is the trimmed standard-error text, null when that is empty.
\* (Output that is no text makes subprocess.run raise: no payload then.)
C29_BuiltinResult ==
    \A p \in DOMAIN calls :
        (Spawned(p) /\ Returned(p)) =>
            /\ Undecodable \notin {run[p].stdout, run[p].stderr}
            /\ GetIsSuccess(calls[p].result.value) <=> run[p].returncode = 0
            /\ GetIsSuccess(calls[p].result.value) =>
                   GetOutputFiles(calls[p].result.value) =
                       IF TrimmedLines(run[p].stdout) # <<>>
                       THEN TrimmedLines(run[p].stdout)
                       ELSE GetInputFiles(calls[p].normalized)
            /\ ~GetIsSuccess(calls[p].result.value) =>
                   Message(p) = IF strip(run[p].stderr) = <<>> THEN None
                                ELSE strip(run[p].stderr)

\* Reached: a Builtin exited with status zero after printing a padded line,
\* a blank line and another line, and returned the two trimmed lines.
C29_Witness ==
    \E p \in DOMAIN calls :
        /\ Spawned(p)
        /\ run[p].returncode = 0
        /\ Len(splitlines(run[p].stdout, <<>>, <<>>)) = 3
        /\ GetOutputFiles(calls[p].result.value) = <<<<"x">>, <<"y">>>>

\* The script of the UserDefined p ran and left a buffer that is missing or
\* unreadable (b), empty (c) or not an output payload (d): no JSON, a JSON
\* value that is no mapping, a mapping with unknown or without required keys.
BadBuffer(p) ==
    /\ Node(p).kind = "UserDefined"
    /\ Done(p)
    /\ run[p].spawn = "ok"
    /\ \/ run[p].buffer.state \in
              {"missing", "unreadable", "undecodable", "empty", "invalid"}
       \/ ~run[p].buffer.payload.mapping
       \/ run[p].buffer.payload.keys \ OUTPUT_FIELDS # {}
       \/ {"output_files", "is_success"} \ run[p].buffer.payload.keys # {}

\* C30: a missing or unreadable buffer, an empty buffer and buffer content
\* that is not an output payload each make the call return a payload with
\* is_success false and the input_files of the call as output_files; none
\* makes the call raise.
C30_BufferFailureReturned ==
    \A p \in DOMAIN calls :
        BadBuffer(p) =>
            /\ Failed(p)
            /\ GetOutputFiles(calls[p].result.value) =
                   GetInputFiles(calls[p].normalized)

\* The call of p was given a payload with a key that is no input field, and
\* has ended.
CalledWithUnknownKey(p) ==
    /\ Done(p)
    /\ calls[p].payload.keys \ INPUT_FIELDS # {}

\* C31: a functor called with a payload holding a key other than input_files
\* and extra_args raises the fatal error of normalisation and execute is
\* never entered: no child process of it was started, no buffer was
\* allocated, none of its children was called or handed to a worker, and the
\* history of the context is as it was before the call.
C31_UnknownKeysAbort ==
    \A p \in DOMAIN calls :
        CalledWithUnknownKey(p) =>
            /\ calls[p].result = UnsupportedFields(Node(p))
            /\ run[p] = NoRun
            /\ p \notin tmp_files
            /\ \A q \in DOMAIN calls : (q # p /\ Parent(q) = p) => calls[q] = Idle
            /\ p = <<>> => /\ contexts[<<>>].history = <<>>
                           /\ DOMAIN contexts = {<<>>}

\* Reached: a Sequential node called with an unknown key has raised.
C31_Witness ==
    /\ Node(<<>>).kind = "Sequential"
    /\ CalledWithUnknownKey(<<>>)
    /\ Raised(<<>>)

\* The tree of a functor without its words: the kind of every node.
RECURSIVE Skeleton(_)
Skeleton(f) ==
    [kind |-> f.kind,
     parts |-> [i \in 1..Len(f.functors) |-> Skeleton(f.functors[i])]]

\* The quoted character of the command line, and the line with an ordinary
\* word quoted in its place.
QuotedAt(text) ==
    CHOOSE k \in 2..Len(text) :
        text[k - 1] \in Quotes /\ \A i \in 1..(k - 2) : text[i] \notin Quotes
WithWordQuoted(text) == [text EXCEPT ![QuotedAt(text)] = "a"]

ParsedLine == tokens.ran /\ (tokens.error # "none" \/ parse_log # <<>>)

\* C32: a command line in which an operator character stands in quotes
\* parses, and to a tree of the same shape as the line with an ordinary word
\* quoted in its place: the quoted token is a word of the command.
C32_QuotedNeverOperator ==
    ParsedLine =>
        LET other == parse_tokens(contexts[<<>>],
                                  tokenize(WithWordQuoted(source)).tokens,
                                  script_files)
        IN /\ tokens.error = "none"
           /\ parse_log[1].error = other.error
           /\ Skeleton(functor[1]) = Skeleton(other.functor)

\* C33: every child of a Sequential or Parallel node that has been called or
\* handed to a worker holds a payload with the input_files key and a
\* non-empty list under it, whatever payload the node itself was called with.
C33_ChildInputsNonEmpty ==
    \A p \in DOMAIN calls :
        Node(p).kind \in {"Sequential", "Parallel"} =>
            \A i \in 1..Len(Node(p).functors) :
                calls[Child(p, i)].status # "idle" =>
                    /\ "input_files" \in calls[Child(p, i)].payload.keys
                    /\ GetInputFiles(calls[Child(p, i)].payload) # <<>>

\* Reached: a Sequential node called with an empty input_files list has
\* called its second child.
C33_Witness ==
    /\ Node(<<>>).kind = "Sequential"
    /\ calls[<<>>].payload = InputPayload(INPUT_FIELDS, <<>>, <<>>)
    /\ calls[<<2>>].status # "idle"

\* The entry Context.record_history writes for the call of p.
Entry(p) == serialize_history(Node(p), calls[p].normalized)

\* One entry for each non-System child the Sequential node p has invoked,
\* from its i-th child on, in invocation order.
RECURSIVE ChildEntries(_, _)
ChildEntries(p, i) ==
    IF i > calls[p].index THEN <<>>
    ELSE (IF Node(Child(p, i)).kind = "System" THEN <<>>
          ELSE <<Entry(Child(p, i))>>)
         \o ChildEntries(p, i + 1)

\* The entries the returned call of p has appended to the history of its
\* context, the calls a System handler makes itself left aside: a Sequential
\* node the entries of its invoked children and then its own, a command or a
\* Parallel node its own alone, a System functor none.
RECURSIVE Appended(_)
Appended(p) ==
    CASE Node(p).kind = "System" -> <<>>
      [] Node(p).kind = "Sequential" ->
            Flatten([i \in 1..calls[p].index |-> Appended(Child(p, i))])
            \o <<Entry(p)>>
      [] OTHER -> <<Entry(p)>>

\* The entries of `part` occur in `whole`, in order.
RECURSIVE Embedded(_, _)
Embedded(part, whole) ==
    IF part = <<>> THEN TRUE
    ELSE IF whole = <<>> THEN FALSE
    ELSE IF Head(part) = Head(whole) THEN Embedded(Tail(part), Tail(whole))
    ELSE Embedded(part, Tail(whole))

\* A System functor of the tree is bound to the command runner.
RunsCommands ==
    \E p \in DOMAIN calls :
        /\ Node(p).kind = "System"
        /\ Node(p).name \in DOMAIN contexts[<<>>].system_funcs
        /\ contexts[<<>>].system_funcs[Node(p).name] = "run"

SequentialReturned == Node(<<>>).kind = "Sequential" /\ Returned(<<>>)

\* C34 as stated: after the call of a Sequential node on a context whose
\* history was empty, the history is one entry per invoked non-System child,
\* in invocation order, and then the entry of the node.
C34_OneEntryPerChild ==
    SequentialReturned =>
        contexts[<<>>].history = ChildEntries(<<>>, 1) \o <<Entry(<<>>)>>

\* C34: after the call of a Sequential node returns, with a success or with
\* the failure of a child, on a context whose history was empty, the history
\* ends with the entry of the node; before it stand, in invocation order,
\* the entries each invoked child appended: a command or a Parallel child its
\* one entry, a failing child included and the children skipped after it
\* excluded, a Sequential child the entries of its own children and then its
\* own.  A System child adds no entry of its own; only the commands a
\* command-running handler calls add theirs, between those of its neighbours.
C34_HistoryOrder ==
    SequentialReturned =>
        /\ contexts[<<>>].history # <<>>
        /\ contexts[<<>>].history[Len(contexts[<<>>].history)] = Entry(<<>>)
        /\ Embedded(Appended(<<>>), contexts[<<>>].history)
        /\ ~RunsCommands => contexts[<<>>].history = Appended(<<>>)

\* Reached: in `(ls | f) | ls` the nested node has returned the failure of
\* its second child, the last child was skipped, and the history holds the
\* entries of ls, f, the nested node and the node.
C34_Witness ==
    /\ SequentialReturned
    /\ Node(<<1>>).kind = "Sequential"
    /\ Failed(<<1, 2>>)
    /\ Failed(<<>>)
    /\ calls[<<2>>].status = "idle"
    /\ contexts[<<>>].history =
           <<Entry(<<1, 1>>), Entry(<<1, 2>>), Entry(<<1>>), Entry(<<>>)>>

\* The script process of the UserDefined call p ended with a non-zero status.
ExitedNonZero(p) ==
    /\ Node(p).kind = "UserDefined"
    /\ Done(p)
    /\ run[p].spawn = "ok"
    /\ run[p].returncode # 0

\* C35: a UserDefined call whose script process exited with a non-zero
\* status never returns a payload whose is_success is true, whatever the
\* buffer file is: missing, unreadable, empty, no JSON, a JSON value that is
\* no mapping, or a mapping reporting success, failure or nothing.
C35_NonZeroExitNeverSucceeds ==
    \A p \in DOMAIN calls : ExitedNonZero(p) => ~Succeeded(p)

\* Reached: the script exited non-zero with a buffer reporting failure, and
\* the call has returned that failure.
C35_Witness ==
    \E p \in DOMAIN calls :
        /\ ExitedNonZero(p)
        /\ ParsedBuffer(p)
        /\ "is_success" \in run[p].buffer.payload.keys
        /\ ~run[p].buffer.payload.is_success
        /\ Failed(p)

\* Reached: the script exited non-zero with a buffer reporting success, and
\* the call has ended without a payload.
C35_SuccessBufferRaised ==
    \E p \in DOMAIN calls :
        /\ ExitedNonZero(p)
        /\ ParsedBuffer(p)
        /\ GetIsSuccess(run[p].buffer.payload)
        /\ Raised(p)
====
